---- MODULE Spec2Model ----
(***************************************************************************)
(* A model of the ldesign-ppt core: the PPTX parser (PPTXParser and the    *)
(* parsers it drives), the relationship path resolution, the theme colour  *)
(* scheme, the colour parsing of the XML wrapper, the step flattening and  *)
(* the stepping of the AnimationController, the timeline and the playback  *)
(* of the TimingController, the navigation of the PPTRenderer with its     *)
(* SlideRenderer, and the usePPT and useAnimation composables of the Vue   *)
(* package.                                                                *)
(*                                                                         *)
(* Each part of the program has its own variables and its own              *)
(* specification; a specification leaves the other parts' variables at     *)
(* their idle values.                                                      *)
(***************************************************************************)
EXTENDS Integers, Sequences, FiniteSets, TLC

VARIABLES
    \* PPTXParser.resolvePath: the call's arguments and its result
    rpBase, rpRel, rpOut,
    \* XMLParser.parseColor: the colour element given and the colour returned
    clrNode, clrOut,
    \* ThemeParser.parseColorScheme: the clrScheme element and the ColorScheme built
    thmNode, thmOut,
    \* AnimationController: the slide whose steps are built, this.steps, and
    \* whether buildSteps has run
    acSlide, acSteps, acBuilt,
    \* PPTXParser: the fields of the one parser instance with the objects they
    \* refer to, and the frames of the parse calls made on it
    parser, calls,
    \* ShapeParser.parseTable: the graphicData element given and the Table returned
    tblNode, tblOut,
    \* ShapeParser.parseFill: the spPr and style elements given and the Fill returned
    fillSpPr, fillStyle, fillOut,
    \* AnimationParser.parseChildTnLst: the children of the childTnLst in document
    \* order and the nodes returned
    tnSource, tnOut,
    \* TimingController: the timing given to buildTimeline, this.timeline, and
    \* whether buildTimeline has run
    tcTiming, tcTimeline, tcBuilt,
    \* SlideRenderer.renderBackground: this.presentation, the slide given and the
    \* style of the slide element
    srPresentation, srSlide, srStyle,
    \* ShapeParser.parseXfrm and parseGroupShape: the method called, the element
    \* given and the Transform of the element returned
    xfCall, xfNode, xfOut,
    \* TextParser.parseParagraphProperties: the pPr element given, the properties
    \* returned and the warnings of the parse
    buPPr, buOut, buWarnings,
    \* PPTRenderer: its options, the slides of the presentation given to init,
    \* whether init has set presentation and slideRenderer, this.state,
    \* this.loadedSlides, this.animationController, the SlideRenderer with the
    \* slide container, the calls in flight and the last call that returned
    rdOptions, rdSlides, rdInited, rdState, rdLoaded, rdController, rdDom, rdCalls, rdDone,
    \* AnimationController used on its own: the slides of its presentation, its
    \* fields and the next() calls in flight
    ctlSlides, ctl, ctlCalls,
    \* usePPT: the variable renderer, the PPTRenderers created so far, the
    \* load() calls in flight and the refs isLoading, error and presentation
    upRenderer, upCreated, upCalls, upRefs,
    \* TimingController playback: this.timeline, currentTime, isRunning, rafId,
    \* whether the frame requested last is still to fire, startTimestamp, speed,
    \* performance.now() and the events emitted for each item since the last stop()
    tpTimeline, tpCurrentTime, tpIsRunning, tpRafId, tpFrame, tpStartTimestamp, tpSpeed,
    tpNow, tpEmitted,
    \* useAnimation: the options given, currentStep, isAnimating and the next()
    \* calls waiting for their onAnimate callback
    uaOptions, uaCurrentStep, uaIsAnimating, uaCalls

pathVars == <<rpBase, rpRel, rpOut>>

colorVars == <<clrNode, clrOut>>

themeVars == <<thmNode, thmOut>>

animVars == <<acSlide, acSteps, acBuilt>>

parserVars == <<parser, calls>>

tableVars == <<tblNode, tblOut>>

fillVars == <<fillSpPr, fillStyle, fillOut>>

childTnVars == <<tnSource, tnOut>>

timelineVars == <<tcTiming, tcTimeline, tcBuilt>>

backgroundVars == <<srPresentation, srSlide, srStyle>>

xfrmVars == <<xfCall, xfNode, xfOut>>

bulletVars == <<buPPr, buOut, buWarnings>>

rendererVars ==
    <<rdOptions, rdSlides, rdInited, rdState, rdLoaded, rdController, rdDom, rdCalls,
      rdDone>>

controllerVars == <<ctlSlides, ctl, ctlCalls>>

usePPTVars == <<upRenderer, upCreated, upCalls, upRefs>>

playbackVars ==
    <<tpTimeline, tpCurrentTime, tpIsRunning, tpRafId, tpFrame, tpStartTimestamp, tpSpeed,
      tpNow, tpEmitted>>

useAnimationVars == <<uaOptions, uaCurrentStep, uaIsAnimating, uaCalls>>

vars == <<rpBase, rpRel, rpOut, clrNode, clrOut, thmNode, thmOut, acSlide, acSteps,
          acBuilt, parser, calls, tblNode, tblOut, fillSpPr, fillStyle, fillOut, tnSource,
          tnOut, tcTiming, tcTimeline, tcBuilt, srPresentation, srSlide, srStyle, xfCall,
          xfNode, xfOut, buPPr, buOut, buWarnings, rdOptions, rdSlides, rdInited, rdState,
          rdLoaded, rdController, rdDom, rdCalls, rdDone, ctlSlides, ctl, ctlCalls,
          upRenderer, upCreated, upCalls, upRefs, tpTimeline, tpCurrentTime, tpIsRunning, tpRafId,
          tpFrame, tpStartTimestamp, tpSpeed, tpNow, tpEmitted, uaOptions,
          uaCurrentStep, uaIsAnimating, uaCalls>>

\* what an action of one part leaves alone: the variables of the other parts
notPathVars ==
    <<colorVars, themeVars, animVars, parserVars, tableVars, fillVars, childTnVars,
      timelineVars, backgroundVars, xfrmVars, bulletVars, rendererVars, controllerVars,
      usePPTVars, playbackVars, useAnimationVars>>

notColorVars ==
    <<pathVars, themeVars, animVars, parserVars, tableVars, fillVars, childTnVars,
      timelineVars, backgroundVars, xfrmVars, bulletVars, rendererVars, controllerVars,
      usePPTVars, playbackVars, useAnimationVars>>

notThemeVars ==
    <<pathVars, colorVars, animVars, parserVars, tableVars, fillVars, childTnVars,
      timelineVars, backgroundVars, xfrmVars, bulletVars, rendererVars, controllerVars,
      usePPTVars, playbackVars, useAnimationVars>>

notAnimVars ==
    <<pathVars, colorVars, themeVars, parserVars, tableVars, fillVars, childTnVars,
      timelineVars, backgroundVars, xfrmVars, bulletVars, rendererVars, controllerVars,
      usePPTVars, playbackVars, useAnimationVars>>

notParserVars ==
    <<pathVars, colorVars, themeVars, animVars, tableVars, fillVars, childTnVars,
      timelineVars, backgroundVars, xfrmVars, bulletVars, rendererVars, controllerVars,
      usePPTVars, playbackVars, useAnimationVars>>

notTableVars ==
    <<pathVars, colorVars, themeVars, animVars, parserVars, fillVars, childTnVars,
      timelineVars, backgroundVars, xfrmVars, bulletVars, rendererVars, controllerVars,
      usePPTVars, playbackVars, useAnimationVars>>

notFillVars ==
    <<pathVars, colorVars, themeVars, animVars, parserVars, tableVars, childTnVars,
      timelineVars, backgroundVars, xfrmVars, bulletVars, rendererVars, controllerVars,
      usePPTVars, playbackVars, useAnimationVars>>

notChildTnVars ==
    <<pathVars, colorVars, themeVars, animVars, parserVars, tableVars, fillVars,
      timelineVars, backgroundVars, xfrmVars, bulletVars, rendererVars, controllerVars,
      usePPTVars, playbackVars, useAnimationVars>>

notTimelineVars ==
    <<pathVars, colorVars, themeVars, animVars, parserVars, tableVars, fillVars,
      childTnVars, backgroundVars, xfrmVars, bulletVars, rendererVars, controllerVars,
      usePPTVars, playbackVars, useAnimationVars>>

notBackgroundVars ==
    <<pathVars, colorVars, themeVars, animVars, parserVars, tableVars, fillVars,
      childTnVars, timelineVars, xfrmVars, bulletVars, rendererVars, controllerVars,
      usePPTVars, playbackVars, useAnimationVars>>

notXfrmVars ==
    <<pathVars, colorVars, themeVars, animVars, parserVars, tableVars, fillVars,
      childTnVars, timelineVars, backgroundVars, bulletVars, rendererVars, controllerVars,
      usePPTVars, playbackVars, useAnimationVars>>

notBulletVars ==
    <<pathVars, colorVars, themeVars, animVars, parserVars, tableVars, fillVars,
      childTnVars, timelineVars, backgroundVars, xfrmVars, rendererVars, controllerVars,
      usePPTVars, playbackVars, useAnimationVars>>

notRendererVars ==
    <<pathVars, colorVars, themeVars, animVars, parserVars, tableVars, fillVars,
      childTnVars, timelineVars, backgroundVars, xfrmVars, bulletVars, controllerVars,
      usePPTVars, playbackVars, useAnimationVars>>

notControllerVars ==
    <<pathVars, colorVars, themeVars, animVars, parserVars, tableVars, fillVars,
      childTnVars, timelineVars, backgroundVars, xfrmVars, bulletVars, rendererVars,
      usePPTVars, playbackVars, useAnimationVars>>

notUsePPTVars ==
    <<pathVars, colorVars, themeVars, animVars, parserVars, tableVars, fillVars,
      childTnVars, timelineVars, backgroundVars, xfrmVars, bulletVars, rendererVars,
      controllerVars, playbackVars, useAnimationVars>>

notPlaybackVars ==
    <<pathVars, colorVars, themeVars, animVars, parserVars, tableVars, fillVars,
      childTnVars, timelineVars, backgroundVars, xfrmVars, bulletVars, rendererVars,
      controllerVars, usePPTVars, useAnimationVars>>

notUseAnimationVars ==
    <<pathVars, colorVars, themeVars, animVars, parserVars, tableVars, fillVars,
      childTnVars, timelineVars, backgroundVars, xfrmVars, bulletVars, rendererVars,
      controllerVars, usePPTVars, playbackVars>>

(***************************************************************************)
(* Helpers on sequences                                                    *)
(***************************************************************************)
Front(s) == SubSeq(s, 1, Len(s) - 1)

Last(s) == s[Len(s)]

RECURSIVE SeqsUpTo(_, _)
\* every sequence over S of length 0..n
SeqsUpTo(S, n) ==
    IF n = 0 THEN {<<>>}
    ELSE LET shorter == SeqsUpTo(S, n - 1)
         IN  shorter \cup {Append(s, x) : s \in {t \in shorter : Len(t) = n - 1}, x \in S}

(***************************************************************************)
(* PPTXParser.resolvePath                                                  *)
(*                                                                         *)
(* A path string is modelled by the list of its '/'-separated segments,    *)
(* which is what split('/') gives and join('/') takes back: the string     *)
(* "ppt/slides/slide1.xml" is <<"ppt", "slides", "slide1.xml">>, the empty *)
(* string is <<"">>, and "/x" is <<"", "x">>.  No segment holds a '/'.     *)
(***************************************************************************)
\* bounds of the paths tried
MaxBaseDepth == 3
MaxRelLen == 3

BaseSegs == {"ppt", "slides", "slide1.xml"}

\* "..rels" is a name that starts with two dots without being the segment ".."
RelSegs == {"..", ".", "media", "image1.png", "..rels"}

BasePaths == SeqsUpTo(BaseSegs, MaxBaseDepth) \ {<<>>}

RelTargets == SeqsUpTo(RelSegs, MaxRelLen) \ {<<>>}

\* relativePath.startsWith('..'): the first segment begins with two dots
StartsWithDotDot(relativePath) == relativePath[1] \in {"..", "..rels"}

\* basePath.substring(0, basePath.lastIndexOf('/')): without a '/', lastIndexOf
\* is -1 and substring(0, -1) is the empty string
BaseDir(basePath) == IF Len(basePath) = 1 THEN <<"">> ELSE Front(basePath)

\* Array.prototype.pop: nothing happens on an empty array
Pop(parts) == IF parts = <<>> THEN <<>> ELSE Front(parts)

\* Array.prototype.join('/') as a path string: an empty array joins to ""
Join(parts) == IF parts = <<>> THEN <<"">> ELSE parts

RECURSIVE WalkParts(_, _, _)
\* the loop of resolvePath over relParts, from index i
WalkParts(baseParts, relParts, i) ==
    IF i > Len(relParts) THEN baseParts
    ELSE LET part == relParts[i]
         IN  IF part = ".." THEN WalkParts(Pop(baseParts), relParts, i + 1)
             ELSE IF part # "." THEN WalkParts(Append(baseParts, part), relParts, i + 1)
             ELSE WalkParts(baseParts, relParts, i + 1)

RECURSIVE WalkPartsKeepDot(_, _, _)
\* mutant of the loop: a '.' segment is appended like any other name
WalkPartsKeepDot(baseParts, relParts, i) ==
    IF i > Len(relParts) THEN baseParts
    ELSE LET part == relParts[i]
         IN  IF part = ".." THEN WalkPartsKeepDot(Pop(baseParts), relParts, i + 1)
             ELSE WalkPartsKeepDot(Append(baseParts, part), relParts, i + 1)

resolvePathKeepDot(basePath, relativePath) ==
    IF ~StartsWithDotDot(relativePath)
    THEN BaseDir(basePath) \o relativePath
    ELSE Join(WalkPartsKeepDot(Pop(basePath), relativePath, 1))

resolvePath(basePath, relativePath) ==
    IF ~StartsWithDotDot(relativePath)
    THEN BaseDir(basePath) \o relativePath
    ELSE Join(WalkParts(Pop(basePath), relativePath, 1))

(***************************************************************************)
(* JavaScript values                                                       *)
(*                                                                         *)
(* A value that may be undefined, a number, a string or an element is a    *)
(* record with its type in the field t.  A string is the sequence of its   *)
(* characters.                                                             *)
(***************************************************************************)
Undefined == [t |-> "undefined"]

Null == [t |-> "null"]

NaN == [t |-> "NaN"]

Num(n) == [t |-> "number", n |-> n]

Text(chars) == [t |-> "string", s |-> chars]

\* a JavaScript array
Array(items) == [t |-> "array", items |-> items]

\* the result of a call that has not returned yet
Pending == [t |-> "pending"]

(***************************************************************************)
(* The idle values of each part's variables                                *)
(***************************************************************************)
\* rpOut is <<>> until resolvePath has returned: no path string is the empty list
PathIdle == rpBase = <<"">> /\ rpRel = <<"">> /\ rpOut = <<>>

\* clrOut is Undefined until parseColor has returned (it returns a colour or null)
ColorIdle == clrNode = Undefined /\ clrOut = Undefined

\* thmOut is Undefined until parseColorScheme has returned
ThemeIdle == thmNode = Undefined /\ thmOut = Undefined

\* a controller with no step built: steps = []
AnimIdle == acSlide = Undefined /\ acSteps = <<>> /\ acBuilt = FALSE

\* the parser after its constructor: no archive, two empty arrays for
\* warnings and errors (arrays holds every array made, the fields refer to
\* them by position), five empty maps, and no master object yet
NewParser ==
    [zip |-> Null, warnings |-> 1, errors |-> 2, arrays |-> << <<>>, <<>> >>,
     contentTypes |-> <<>>, relationships |-> <<>>, themes |-> <<>>,
     masters |-> <<>>, layouts |-> <<>>, masterObjs |-> <<>>]

ParserIdle == parser = NewParser /\ calls = <<>>

\* every part but the one named is idle
TableIdle == tblNode = Undefined /\ tblOut = Pending

FillIdle == fillSpPr = Undefined /\ fillStyle = Undefined /\ fillOut = Pending

ChildTnIdle == tnSource = <<>> /\ tnOut = Pending

TimelineIdle == tcTiming = Undefined /\ tcTimeline = <<>> /\ tcBuilt = FALSE

BackgroundIdle == srPresentation = Undefined /\ srSlide = Undefined /\ srStyle = Pending

XfrmIdle == xfCall = "" /\ xfNode = Undefined /\ xfOut = Pending

BulletIdle == buPPr = Undefined /\ buOut = Pending /\ buWarnings = <<>>

RendererIdle ==
    /\ rdOptions = Undefined /\ rdSlides = <<>> /\ rdInited = FALSE /\ rdState = Undefined
    /\ rdLoaded = {} /\ rdController = Null /\ rdDom = Undefined /\ rdCalls = <<>>
    /\ rdDone = Undefined

ControllerIdle == ctlSlides = <<>> /\ ctl = Undefined /\ ctlCalls = <<>>

UsePPTIdle == upRenderer = Null /\ upCreated = <<>> /\ upCalls = <<>> /\ upRefs = Undefined

PlaybackIdle ==
    /\ tpTimeline = <<>> /\ tpCurrentTime = 0 /\ tpIsRunning = FALSE /\ tpRafId = Null
    /\ tpFrame = FALSE /\ tpStartTimestamp = 0 /\ tpSpeed = 1 /\ tpNow = 0 /\ tpEmitted = <<>>

UseAnimationIdle ==
    uaOptions = Undefined /\ uaCurrentStep = 0 /\ uaIsAnimating = FALSE /\ uaCalls = <<>>

OthersIdle(part) ==
    /\ part = "path" \/ PathIdle
    /\ part = "color" \/ ColorIdle
    /\ part = "theme" \/ ThemeIdle
    /\ part = "anim" \/ AnimIdle
    /\ part = "parser" \/ ParserIdle
    /\ part = "table" \/ TableIdle
    /\ part = "fill" \/ FillIdle
    /\ part = "childTn" \/ ChildTnIdle
    /\ part = "timeline" \/ TimelineIdle
    /\ part = "background" \/ BackgroundIdle
    /\ part = "xfrm" \/ XfrmIdle
    /\ part = "bullet" \/ BulletIdle
    /\ part = "renderer" \/ RendererIdle
    /\ part = "controller" \/ ControllerIdle
    /\ part = "usePPT" \/ UsePPTIdle
    /\ part = "playback" \/ PlaybackIdle
    /\ part = "useAnimation" \/ UseAnimationIdle

(***************************************************************************)
(* XMLParser: the tree fast-xml-parser gives and the accessors over it     *)
(*                                                                         *)
(* An element holds its attributes (a: a set of <<name, text>>) and its    *)
(* children (c: a set of <<local name, element>>).  fast-xml-parser gives  *)
(* the empty string for an element with neither attributes nor content.    *)
(***************************************************************************)
Element(attrs, children) == [t |-> "element", a |-> attrs, c |-> children]

EmptyElement == Text(<<>>)

\* !x
Falsy(x) == x.t \in {"undefined", "null", "NaN"} \/ x = Text(<<>>) \/ x = Num(0)

\* XMLParser.getAttr without a default.  The name is looked up with and without
\* its namespace prefix, so attributes are kept under their local names.
getAttr(element, name) ==
    IF Falsy(element) \/ element.t # "element" THEN Undefined
    ELSE IF \E p \in element.a : p[1] = name
         THEN (CHOOSE p \in element.a : p[1] = name)[2]
         ELSE Undefined

\* XMLParser.getChild.  The prefixes a:, p:, r:, ... are tried in turn, so
\* children are kept under their local names.
getChild(element, name) ==
    IF Falsy(element) \/ element.t # "element" THEN Undefined
    ELSE IF \E p \in element.c : p[1] = name
         THEN (CHOOSE p \in element.c : p[1] = name)[2]
         ELSE Undefined

DigitChars == {"0", "1", "2", "3", "4", "5", "6", "7", "8", "9"}

DigitValue(ch) ==
    CASE ch = "0" -> 0 [] ch = "1" -> 1 [] ch = "2" -> 2 [] ch = "3" -> 3
      [] ch = "4" -> 4 [] ch = "5" -> 5 [] ch = "6" -> 6 [] ch = "7" -> 7
      [] ch = "8" -> 8 [] ch = "9" -> 9

RECURSIVE LeadingDigits(_)
\* how many characters at the start of chars are digits
LeadingDigits(chars) ==
    IF chars = <<>> \/ Head(chars) \notin DigitChars THEN 0
    ELSE 1 + LeadingDigits(Tail(chars))

RECURSIVE DigitsValue(_)
\* the number a sequence of digits writes in base 10
DigitsValue(digits) ==
    IF digits = <<>> THEN 0
    ELSE 10 * DigitsValue(Front(digits)) + DigitValue(Last(digits))

\* parseInt(text, 10): an optional sign, then the digits up to the first
\* character that is none; NaN without a digit
parseInt(text) ==
    LET chars == text.s
        signed == chars # <<>> /\ Head(chars) \in {"-", "+"}
        body == IF signed THEN Tail(chars) ELSE chars
        n == LeadingDigits(body)
    IN  IF n = 0 THEN NaN
        ELSE IF signed /\ Head(chars) = "-" THEN Num(0 - DigitsValue(SubSeq(body, 1, n)))
        ELSE Num(DigitsValue(SubSeq(body, 1, n)))

\* the quotient a / b of a number, NaN kept
Quotient(a, b) == IF a.t = "number" THEN Num(a.n \div b) ELSE NaN

DigitChar(d) ==
    CASE d = 0 -> "0" [] d = 1 -> "1" [] d = 2 -> "2" [] d = 3 -> "3"
      [] d = 4 -> "4" [] d = 5 -> "5" [] d = 6 -> "6" [] d = 7 -> "7"
      [] d = 8 -> "8" [] d = 9 -> "9"

RECURSIVE NatChars(_)
NatChars(n) == IF n < 10 THEN <<DigitChar(n)>> ELSE Append(NatChars(n \div 10), DigitChar(n % 10))

\* a number in a template literal: String(n) of an integer
NumChars(x) ==
    IF x.t # "number" THEN <<"N", "a", "N">>
    ELSE IF x.n < 0 THEN <<"-">> \o NatChars(0 - x.n) ELSE NatChars(x.n)

\* mutant of parseColorModifier: the value is converted to a percentage
parseColorModifierPercent(colorElement, modifierName) ==
    LET modifier == getChild(colorElement, modifierName)
        val == getAttr(modifier, "val")
    IN  IF Falsy(modifier) THEN Undefined
        ELSE IF Falsy(val) THEN Undefined
        ELSE Quotient(parseInt(val), 1000)

\* XMLParser.parseColorModifier
parseColorModifier(colorElement, modifierName) ==
    LET modifier == getChild(colorElement, modifierName)
        val == getAttr(modifier, "val")
    IN  IF Falsy(modifier) THEN Undefined
        ELSE IF Falsy(val) THEN Undefined
        ELSE parseInt(val)

\* x || d
OrElse(x, d) == IF Falsy(x) THEN d ELSE x

\* { type, value, ...mods } with mods the parseModifiers of parseColor
Colour(type, value, clrElement) ==
    [t |-> "colour", type |-> type, value |-> value,
     alpha |-> parseColorModifier(clrElement, "alpha"),
     lumMod |-> parseColorModifier(clrElement, "lumMod"),
     lumOff |-> parseColorModifier(clrElement, "lumOff"),
     satMod |-> parseColorModifier(clrElement, "satMod"),
     shade |-> parseColorModifier(clrElement, "shade"),
     tint |-> parseColorModifier(clrElement, "tint")]

\* the hsl(...) string of parseColor; the quotients are exact for the
\* attribute values tried (multiples of 60000 and of 1000)
HslString(hslClr) ==
    LET hue == Quotient(parseInt(OrElse(getAttr(hslClr, "hue"), Text(<<"0">>))), 60000)
        sat == Quotient(parseInt(OrElse(getAttr(hslClr, "sat"), Text(<<"0">>))), 1000)
        lum == Quotient(parseInt(OrElse(getAttr(hslClr, "lum"), Text(<<"0">>))), 1000)
    IN  Text(<<"h", "s", "l", "(">> \o NumChars(hue) \o <<",", " ">> \o NumChars(sat)
             \o <<"%", ",", " ">> \o NumChars(lum) \o <<"%", ")">>)

\* XMLParser.parseColor
parseColor(colorElement) ==
    LET srgbClr == getChild(colorElement, "srgbClr")
        schemeClr == getChild(colorElement, "schemeClr")
        prstClr == getChild(colorElement, "prstClr")
        hslClr == getChild(colorElement, "hslClr")
        sysClr == getChild(colorElement, "sysClr")
        lastClr == getAttr(sysClr, "lastClr")
    IN  IF Falsy(colorElement) THEN Null
        ELSE IF ~Falsy(srgbClr)
        THEN Colour("rgb",
                    Text(<<"#">> \o OrElse(getAttr(srgbClr, "val"),
                                          Text(<<"0", "0", "0", "0", "0", "0">>)).s),
                    srgbClr)
        ELSE IF ~Falsy(schemeClr)
        THEN Colour("scheme", OrElse(getAttr(schemeClr, "val"), Text(<<"t", "x", "1">>)),
                    schemeClr)
        ELSE IF ~Falsy(prstClr)
        THEN Colour("preset",
                    OrElse(getAttr(prstClr, "val"), Text(<<"b", "l", "a", "c", "k">>)),
                    prstClr)
        ELSE IF ~Falsy(hslClr)
        THEN Colour("hsl", HslString(hslClr), hslClr)
        ELSE IF ~Falsy(sysClr)
        THEN IF ~Falsy(lastClr)
             THEN Colour("rgb", Text(<<"#">> \o lastClr.s), sysClr)
             ELSE Colour("system",
                         OrElse(getAttr(sysClr, "val"),
                                Text(<<"w", "i", "n", "d", "o", "w", "T", "e", "x", "t">>)),
                         sysClr)
        ELSE Null

InitPath ==
    /\ rpBase \in BasePaths /\ rpRel \in RelTargets /\ rpOut = <<>>
    /\ OthersIdle("path")

\* one call of resolvePath on the arguments chosen
ResolvePath ==
    /\ rpOut = <<>>
    /\ rpOut' = resolvePath(rpBase, rpRel)
    /\ UNCHANGED <<rpBase, rpRel>>
    /\ UNCHANGED notPathVars

NextPath == ResolvePath

SpecPath == InitPath /\ [][NextPath]_vars

(***************************************************************************)
(* Claims on resolvePath                                                   *)
(***************************************************************************)
\* the directory of a part: its path without the file name
DirectoryOf(basePath) == SubSeq(basePath, 1, Len(basePath) - 1)

\* the string dir + "/" + target
JoinedTo(dir, target) == IF dir = <<>> THEN <<"">> \o target ELSE dir \o target

RECURSIVE PopsAndAppends(_, _)
\* the levels left after the segments of target have acted on dir one after the
\* other: '..' takes the last level away, '.' does nothing, a name is appended
PopsAndAppends(dir, target) ==
    IF target = <<>> THEN dir
    ELSE LET before == PopsAndAppends(dir, Front(target))
             seg == Last(target)
         IN  CASE seg = ".." -> SubSeq(before, 1, Len(before) - 1)
               [] seg = "."  -> before
               [] OTHER      -> Append(before, seg)

ExampleBase == <<"ppt", "slides", "slide1.xml">>

ExampleTarget == <<"..", "media", "image1.png">>

\* C7: resolvePath joins a target that does not start with '..' to the base
\* part's directory; for a target that starts with '..' every '..' segment pops
\* one level, every other segment but '.' is appended; "../media/image1.png"
\* from "ppt/slides/slide1.xml" is "ppt/media/image1.png".
C7_ResolvePathJoinsOrPops ==
    rpOut # <<>> =>
        /\ rpRel[1] \notin {"..", "..rels"} =>
               rpOut = JoinedTo(DirectoryOf(rpBase), rpRel)
        /\ rpRel[1] \in {"..", "..rels"} =>
               LET left == PopsAndAppends(DirectoryOf(rpBase), rpRel)
               IN  rpOut = IF left = <<>> THEN <<"">> ELSE left
        /\ (rpBase = ExampleBase /\ rpRel = ExampleTarget) =>
               rpOut = <<"ppt", "media", "image1.png">>

C7_Witness ==
    /\ rpBase = ExampleBase
    /\ rpRel = ExampleTarget
    /\ rpOut = <<"ppt", "media", "image1.png">>

RECURSIVE PosixNormal(_, _)
\* POSIX normalisation of the segments of a relative path, acc the part done:
\* '.' and empty segments vanish, '..' cancels the name before it
PosixNormal(acc, segs) ==
    IF segs = <<>> THEN acc
    ELSE LET seg == Head(segs)
         IN  CASE seg \in {".", ""} -> PosixNormal(acc, Tail(segs))
               [] seg = ".." ->
                    IF acc # <<>> /\ Last(acc) # ".."
                    THEN PosixNormal(Front(acc), Tail(segs))
                    ELSE PosixNormal(Append(acc, ".."), Tail(segs))
               [] OTHER -> PosixNormal(Append(acc, seg), Tail(segs))

\* the target resolved against the directory of the base part, as POSIX does
PosixResolve(basePath, target) ==
    LET n == PosixNormal(<<>>, DirectoryOf(basePath) \o target)
    IN  IF n = <<>> THEN <<".">> ELSE n

\* C8: for every base part and every relative target resolvePath returns the
\* path POSIX relative resolution against the base part's directory gives.
C8_ResolvePathIsPosix == rpOut # <<>> => rpOut = PosixResolve(rpBase, rpRel)

(***************************************************************************)
(* parseColor on the colour elements of a bounded set                      *)
(***************************************************************************)
Digits == <<"0", "1", "2", "3", "4", "5", "6", "7", "8", "9">>

RECURSIVE Decimal(_)
\* the decimal text of an integer, as a document writes it
Decimal(n) ==
    IF n < 0 THEN <<"-">> \o Decimal(0 - n)
    ELSE IF n < 10 THEN <<Digits[n + 1]>>
    ELSE Append(Decimal(n \div 10), Digits[(n % 10) + 1])

\* the raw modifier values tried, in 100000ths
ModifierRaw == {0, 10000, 50000}

\* a modifier child: absent, or <a:lumMod val="50000"/>
ModifierChildren ==
    {Undefined} \cup {Element({<<"val", Text(Decimal(n))>>}, {}) : n \in ModifierRaw}

\* the attributes given to the colour child of each kind
KindAttrs(kind) ==
    CASE kind = "srgbClr" -> {<<"val", Text(<<"4", "4", "7", "2", "C", "4">>)>>}
      [] kind = "schemeClr" -> {<<"val", Text(<<"a", "c", "c", "e", "n", "t", "1">>)>>}
      [] kind = "prstClr" -> {<<"val", Text(<<"r", "e", "d">>)>>}
      [] kind = "hslClr" -> {<<"hue", Text(Decimal(120000))>>, <<"sat", Text(Decimal(50000))>>,
                             <<"lum", Text(Decimal(40000))>>}
      [] kind = "sysClr" -> {<<"lastClr", Text(<<"F", "F", "F", "F", "F", "F">>)>>}
      [] kind = "sysClrVal" -> {<<"val", Text(<<"w", "i", "n", "d", "o", "w">>)>>}
      [] OTHER -> {}

\* the element name of a kind
KindName(kind) == IF kind = "sysClrVal" THEN "sysClr" ELSE kind

ColourKinds == {"srgbClr", "schemeClr", "prstClr", "hslClr", "sysClr", "sysClrVal", "scrgbClr"}

\* a colour element such as <a:solidFill>: one colour child with its modifiers
ColourElement(kind, mods) ==
    Element({}, {<<KindName(kind),
                   Element(KindAttrs(kind),
                           {<<m, mods[m]>> : m \in {x \in DOMAIN mods : mods[x] # Undefined}})>>})

ModifierNames == {"alpha", "lumMod", "lumOff", "satMod", "shade", "tint"}

ColourElements ==
    {ColourElement(kind, mods) : kind \in ColourKinds, mods \in [ModifierNames -> ModifierChildren]}

InitColor ==
    /\ clrNode \in ColourElements
    /\ clrOut = Undefined
    /\ OthersIdle("color")

\* one call of parseColor on the element chosen
ParseColor ==
    /\ clrOut = Undefined
    /\ clrOut' = parseColor(clrNode)
    /\ UNCHANGED clrNode
    /\ UNCHANGED notColorVars

NextColor == ParseColor

SpecColor == InitColor /\ [][NextColor]_vars

\* the colour child of the element given
ColourChild == (CHOOSE p \in clrNode.c : TRUE)[2]

\* C10: parseColor carries the modifiers through unconverted: the colour returned
\* holds, for every modifier child present, the integer its val writes, and
\* undefined for every modifier that is absent; lumMod=50000 and lumOff=10000
\* give lumMod == 50000 and lumOff == 10000.
C10_ModifiersCarriedRaw ==
    clrOut.t = "colour" =>
        /\ \A m \in ModifierNames :
               LET child == getChild(ColourChild, m)
               IN  IF child = Undefined THEN clrOut[m] = Undefined
                   ELSE /\ clrOut[m].t = "number"
                        /\ Decimal(clrOut[m].n) = getAttr(child, "val").s
        /\ ( /\ getAttr(getChild(ColourChild, "lumMod"), "val") = Text(<<"5", "0", "0", "0", "0">>)
             /\ getAttr(getChild(ColourChild, "lumOff"), "val") = Text(<<"1", "0", "0", "0", "0">>) )
           => (clrOut.lumMod = Num(50000) /\ clrOut.lumOff = Num(10000))

C10_Witness ==
    /\ clrOut.t = "colour"
    /\ getAttr(getChild(ColourChild, "lumMod"), "val") = Text(<<"5", "0", "0", "0", "0">>)
    /\ getAttr(getChild(ColourChild, "lumOff"), "val") = Text(<<"1", "0", "0", "0", "0">>)
    /\ getChild(ColourChild, "tint") = Undefined
    /\ clrOut.lumMod = Num(50000)
    /\ clrOut.lumOff = Num(10000)
    /\ clrOut.tint = Undefined

(***************************************************************************)
(* ThemeParser.parseColorScheme                                            *)
(***************************************************************************)
\* the 12 slots of a ColorScheme, in the order parseColorScheme reads them
ThemeSlots ==
    <<"dk1", "lt1", "dk2", "lt2", "accent1", "accent2", "accent3", "accent4",
      "accent5", "accent6", "hlink", "folHlink">>

SlotNames == {ThemeSlots[i] : i \in DOMAIN ThemeSlots}

\* parseThemeColor of parseColorScheme
parseThemeColor(clrScheme, name) ==
    LET element == getChild(clrScheme, name)
        color == parseColor(element)
    IN  IF ~Falsy(color)
        THEN [t |-> "colour", type |-> color.type, value |-> color.value, alpha |-> color.alpha]
        ELSE [t |-> "colour", type |-> "rgb",
              value |-> Text(<<"#", "0", "0", "0", "0", "0", "0">>), alpha |-> Undefined]

\* ThemeParser.parseColorScheme
parseColorScheme(clrScheme) ==
    [t |-> "colorScheme",
     name |-> OrElse(getAttr(clrScheme, "name"), Text(<<"D", "e", "f", "a", "u", "l", "t">>)),
     colors |-> [slot \in SlotNames |-> parseThemeColor(clrScheme, slot)]]

\* DEFAULT_THEME_COLORS of the colour resolver: the default Office palette
DEFAULT_THEME_COLORS(slot) ==
    CASE slot = "dk1" -> Text(<<"#", "0", "0", "0", "0", "0", "0">>)
      [] slot = "lt1" -> Text(<<"#", "F", "F", "F", "F", "F", "F">>)
      [] slot = "dk2" -> Text(<<"#", "1", "F", "4", "9", "7", "D">>)
      [] slot = "lt2" -> Text(<<"#", "E", "E", "E", "C", "E", "1">>)
      [] slot = "accent1" -> Text(<<"#", "4", "4", "7", "2", "C", "4">>)
      [] slot = "accent2" -> Text(<<"#", "E", "D", "7", "D", "3", "1">>)
      [] slot = "accent3" -> Text(<<"#", "A", "5", "A", "5", "A", "5">>)
      [] slot = "accent4" -> Text(<<"#", "F", "F", "C", "0", "0", "0">>)
      [] slot = "accent5" -> Text(<<"#", "5", "B", "9", "B", "D", "5">>)
      [] slot = "accent6" -> Text(<<"#", "7", "0", "A", "D", "4", "7">>)
      [] slot = "hlink" -> Text(<<"#", "0", "5", "6", "3", "C", "1">>)
      [] slot = "folHlink" -> Text(<<"#", "9", "5", "4", "F", "7", "2">>)

\* the colour kinds given to the slots a theme part holds
SlotKinds == {"srgbClr", "sysClr", "scrgbClr"}

\* an <a:clrScheme name="Office"> holding the slots of `present`, each with a
\* colour child of the kind `kind` and no modifier
ClrScheme(present, kind) ==
    Element({<<"name", Text(<<"O", "f", "f", "i", "c", "e">>)>>},
            {<<slot, ColourElement(kind, [m \in {} |-> Undefined])>> : slot \in present})

\* the clrScheme elements tried; Undefined is a theme part without clrScheme
ClrSchemes == {Undefined} \cup {ClrScheme(present, kind) : present \in SUBSET SlotNames, kind \in SlotKinds}

InitTheme ==
    /\ thmNode \in ClrSchemes
    /\ thmOut = Undefined
    /\ OthersIdle("theme")

\* one call of parseColorScheme on the element chosen
ParseColorScheme ==
    /\ thmOut = Undefined
    /\ thmOut' = parseColorScheme(thmNode)
    /\ UNCHANGED thmNode
    /\ UNCHANGED notThemeVars

NextTheme == ParseColorScheme

SpecTheme == InitTheme /\ [][NextTheme]_vars

\* C9: the ColorScheme built for a theme part has all 12 slots populated, and a
\* slot whose child element is missing holds the default Office palette value
\* of that slot.
C9_MissingSlotGetsOfficeDefault ==
    thmOut # Undefined =>
        \A slot \in SlotNames :
            /\ thmOut.colors[slot].t = "colour"
            /\ thmOut.colors[slot].value.t = "string"
            /\ getChild(thmNode, slot) = Undefined =>
                   thmOut.colors[slot].value = DEFAULT_THEME_COLORS(slot)

(***************************************************************************)
(* AnimationController: flattening a slide's timing tree into steps        *)
(*                                                                         *)
(* An AnimationNode holds its type, its children (hasChildren tells a node *)
(* with a children array, possibly empty, from one without) and its        *)
(* targetId.                                                               *)
(***************************************************************************)
Leaf(type, targetId) ==
    [type |-> type, hasChildren |-> FALSE, children |-> <<>>, targetId |-> targetId]

Group(type, children) ==
    [type |-> type, hasChildren |-> TRUE, children |-> children, targetId |-> Undefined]

RECURSIVE TargetIdsOf(_)
\* nodes.filter(n => n.targetId !== undefined).map(n => n.targetId)
TargetIdsOf(nodes) ==
    IF nodes = <<>> THEN <<>>
    ELSE IF Head(nodes).targetId # Undefined
         THEN <<Head(nodes).targetId.n>> \o TargetIdsOf(Tail(nodes))
         ELSE TargetIdsOf(Tail(nodes))

\* AnimationController.addStep on the steps so far
addStep(steps, nodes) == Append(steps, [nodes |-> nodes, targetIds |-> TargetIdsOf(nodes)])

RECURSIVE AddEachChild(_, _, _)
\* for (const child of node.children) this.addStep([child])
AddEachChild(steps, children, j) ==
    IF j > Len(children) THEN steps
    ELSE AddEachChild(addStep(steps, <<children[j]>>), children, j + 1)

RECURSIVE ProcessFrom(_, _, _)
\* the loop of processSequence over nodes, from index i
ProcessFrom(steps, nodes, i) ==
    IF i > Len(nodes) THEN steps
    ELSE LET node == nodes[i]
         IN  IF node.type = "sequence"
             THEN ProcessFrom(IF node.hasChildren THEN AddEachChild(steps, node.children, 1)
                              ELSE steps,
                              nodes, i + 1)
             ELSE IF node.type = "parallel"
             THEN ProcessFrom(IF node.hasChildren THEN addStep(steps, node.children) ELSE steps,
                              nodes, i + 1)
             ELSE IF node.type = "effect" \/ node.type = "animate"
             THEN ProcessFrom(addStep(steps, <<node>>), nodes, i + 1)
             ELSE ProcessFrom(steps, nodes, i + 1)

\* AnimationController.processSequence on the steps so far
processSequence(steps, nodes) == ProcessFrom(steps, nodes, 1)

RECURSIVE ProcessSequences(_, _, _)
\* for (const sequence of slide.timing.sequenceList) processSequence(sequence.children)
ProcessSequences(steps, sequenceList, k) ==
    IF k > Len(sequenceList) THEN steps
    ELSE ProcessSequences(processSequence(steps, sequenceList[k].children), sequenceList, k + 1)

\* AnimationController.buildSteps: the new value of this.steps.  A slide
\* without timing has hasTiming FALSE, a timing without sequenceList has
\* hasSequenceList FALSE.
buildSteps(slide) ==
    IF ~slide.hasTiming \/ ~slide.hasSequenceList THEN <<>>
    ELSE ProcessSequences(<<>>, slide.sequenceList, 1)

\* bounds of the timing trees tried
MaxLeafChildren == 3
MaxGroupChildren == 2

\* the node types without children
LeafTypes ==
    {"effect", "set", "animate", "animateColor", "animateMotion", "animateRotation",
     "animateScale", "audio", "video"}

AllLeaves == {Leaf(ty, Num(2)) : ty \in LeafTypes} \cup {Leaf("effect", Undefined), Leaf("effect", Num(3))}

\* the leaves found below a group
InnerLeaves == {Leaf("effect", Num(2)), Leaf("set", Num(3))}

\* groups of leaves
LeafGroups ==
    {Group(ty, kids) : ty \in {"sequence", "parallel"}, kids \in SeqsUpTo(InnerLeaves, MaxLeafChildren)}

\* the groups found below a group: their leaves are all the same effect
InnerGroups ==
    {Group(ty, kids) : ty \in {"sequence", "parallel"},
                       kids \in SeqsUpTo({Leaf("effect", Num(2))}, MaxLeafChildren)}

\* groups of groups and leaves
NestedGroups ==
    {Group(ty, kids) : ty \in {"sequence", "parallel"},
                       kids \in SeqsUpTo(InnerGroups \cup InnerLeaves, MaxGroupChildren)}

\* the children of a top-level sequence: one node of any shape, or two flat ones
TopChildren ==
    {<<n>> : n \in NestedGroups \cup LeafGroups \cup AllLeaves}
        \cup {<<a, b>> : a \in AllLeaves, b \in LeafGroups \cup AllLeaves}

SlideWith(sequenceList) ==
    [hasTiming |-> TRUE, hasSequenceList |-> TRUE, sequenceList |-> sequenceList]

\* the slides tried: no timing, no sequenceList, one sequence, two sequences
AnimSlides ==
    {[hasTiming |-> FALSE, hasSequenceList |-> FALSE, sequenceList |-> <<>>],
     [hasTiming |-> TRUE, hasSequenceList |-> FALSE, sequenceList |-> <<>>]}
        \cup {SlideWith(<<[children |-> top]>>) : top \in TopChildren}
        \cup {SlideWith(<<[children |-> <<a>>], [children |-> <<b>>]>>) :
                  a \in InnerLeaves, b \in LeafGroups}

InitAnim ==
    /\ acSlide \in AnimSlides
    /\ acSteps = <<>>
    /\ acBuilt = FALSE
    /\ OthersIdle("anim")

\* buildSteps on the slide chosen
BuildSteps ==
    /\ ~acBuilt
    /\ acSteps' = buildSteps(acSlide)
    /\ acBuilt' = TRUE
    /\ UNCHANGED acSlide
    /\ UNCHANGED notAnimVars

NextAnim == BuildSteps

SpecAnim == InitAnim /\ [][NextAnim]_vars

(***************************************************************************)
(* Claims on the step flattening                                           *)
(***************************************************************************)
RECURSIVE LeafDescendants(_)
\* the leaves below a node, in document order (the node itself when a leaf)
LeafDescendants(node) ==
    IF ~node.hasChildren THEN <<node>>
    ELSE LET Below[i \in 0..Len(node.children)] ==
                 IF i = 0 THEN <<>> ELSE Below[i - 1] \o LeafDescendants(node.children[i])
         IN  Below[Len(node.children)]

\* the slide holds one top-level sequence whose only child is a `sequence` node
OneSequenceNode ==
    /\ acSlide.hasTiming /\ acSlide.hasSequenceList
    /\ Len(acSlide.sequenceList) = 1
    /\ Len(acSlide.sequenceList[1].children) = 1
    /\ acSlide.sequenceList[1].children[1].type = "sequence"

TheSequenceNode == acSlide.sequenceList[1].children[1]

\* a sequence of two children, the second a parallel node of three leaves
TwoChildrenSecondParallelOfThree ==
    /\ OneSequenceNode
    /\ Len(TheSequenceNode.children) = 2
    /\ ~TheSequenceNode.children[1].hasChildren
    /\ TheSequenceNode.children[2].type = "parallel"
    /\ Len(TheSequenceNode.children[2].children) = 3
    /\ \A j \in 1..3 : ~TheSequenceNode.children[2].children[j].hasChildren

\* C5: flattening a `sequence` node emits one step per child in order, a child
\* that is a `parallel` node becoming one step whose members are that node's
\* leaf descendants: a sequence of two children, one a parallel node of three
\* leaves, gives exactly 2 steps, the second of 3 concurrent members.
C5_SequenceOneStepPerChild ==
    (acBuilt /\ OneSequenceNode) =>
        /\ Len(acSteps) = Len(TheSequenceNode.children)
        /\ \A i \in 1..Len(TheSequenceNode.children) :
               ( /\ TheSequenceNode.children[i].type = "parallel"
                 /\ LeafDescendants(TheSequenceNode.children[i]) # <<>> ) =>
                   acSteps[i].nodes = LeafDescendants(TheSequenceNode.children[i])
        /\ TwoChildrenSecondParallelOfThree =>
               (Len(acSteps) = 2 /\ Len(acSteps[2].nodes) = 3)

RECURSIVE LeavesMet(_)
\* the leaves the flattening meets as steps of their own: the leaves of the
\* list and, through every `sequence` node, the leaves of its children
LeavesMet(nodes) ==
    IF nodes = <<>> THEN {}
    ELSE LET node == Head(nodes)
         IN  (IF ~node.hasChildren THEN {node}
              ELSE IF node.type = "sequence" THEN LeavesMet(node.children)
              ELSE {})
             \cup LeavesMet(Tail(nodes))

\* C6: every leaf met while flattening a slide's timing tree, of any leaf kind,
\* is emitted as its own one-node step; no leaf is left out of the step list.
C6_EveryLeafIsAStep ==
    (acBuilt /\ acSlide.hasTiming /\ acSlide.hasSequenceList) =>
        \A k \in 1..Len(acSlide.sequenceList) :
            \A leaf \in LeavesMet(acSlide.sequenceList[k].children) :
                \E i \in 1..Len(acSteps) : acSteps[i].nodes = <<leaf>>

(***************************************************************************)
(* PPTXParser: the archives parsed                                         *)
(*                                                                         *)
(* A part path is the list of its segments, as for resolvePath.  An        *)
(* archive holds the paths of its entries in the order of zip.files, the   *)
(* relationships written in each of its .rels parts and the sldIdLst and   *)
(* sldSz of its presentation part.  The XML read from a part is the pair   *)
(* of the archive and the path it was read from, so that what is built     *)
(* from it tells which archive it came from.                               *)
(***************************************************************************)
CONTENT_TYPES_XML == <<"[Content_Types].xml">>

PRESENTATION_XML == <<"ppt", "presentation.xml">>

CoreXml == <<"docProps", "core.xml">>

AppXml == <<"docProps", "app.xml">>

Theme1 == <<"ppt", "theme", "theme1.xml">>

Theme2 == <<"ppt", "theme", "theme2.xml">>

Master1 == <<"ppt", "slideMasters", "slideMaster1.xml">>

Layout1 == <<"ppt", "slideLayouts", "slideLayout1.xml">>

Layout2 == <<"ppt", "slideLayouts", "slideLayout2.xml">>

Slide1 == <<"ppt", "slides", "slide1.xml">>

Notes1 == <<"ppt", "notesSlides", "notesSlide1.xml">>

Image1 == <<"ppt", "media", "image1.png">>

\* `${fileName}.rels`
RelsFileName(fileName) ==
    CASE fileName = "presentation.xml" -> "presentation.xml.rels"
      [] fileName = "slideMaster1.xml" -> "slideMaster1.xml.rels"
      [] fileName = "slideLayout1.xml" -> "slideLayout1.xml.rels"
      [] fileName = "slideLayout2.xml" -> "slideLayout2.xml.rels"
      [] fileName = "slide1.xml" -> "slide1.xml.rels"
      [] OTHER -> "other.rels"

\* PPTXParser.getRelationshipsPath
getRelationshipsPath(filePath) ==
    Front(filePath) \o <<"_rels", RelsFileName(Last(filePath))>>

Rel(id, type, target) == [id |-> id, type |-> type, target |-> target]

\* a complete presentation: one theme, master, layout and slide, the document
\* properties and an image
ArchiveA ==
    [id |-> "A",
     entries |-> <<CONTENT_TYPES_XML, PRESENTATION_XML, getRelationshipsPath(PRESENTATION_XML),
                   Theme1, Master1, getRelationshipsPath(Master1),
                   Layout1, getRelationshipsPath(Layout1),
                   Slide1, getRelationshipsPath(Slide1), CoreXml, AppXml, Image1>>,
     rels |-> <<
        <<getRelationshipsPath(PRESENTATION_XML),
          <<Rel("rId1", "slideMaster", <<"slideMasters", "slideMaster1.xml">>),
            Rel("rId2", "slide", <<"slides", "slide1.xml">>)>> >>,
        <<getRelationshipsPath(Master1),
          <<Rel("rId1", "slideLayout", <<"..", "slideLayouts", "slideLayout1.xml">>),
            Rel("rId2", "theme", <<"..", "theme", "theme1.xml">>)>> >>,
        <<getRelationshipsPath(Layout1),
          <<Rel("rId1", "slideMaster", <<"..", "slideMasters", "slideMaster1.xml">>)>> >>,
        <<getRelationshipsPath(Slide1),
          <<Rel("rId1", "slideLayout", <<"..", "slideLayouts", "slideLayout1.xml">>)>> >> >>,
     sldIds |-> <<[id |-> Text(<<"2", "5", "6">>), rid |-> "rId2"]>>,
     cx |-> Text(<<"1", "2", "1", "9", "2", "0", "0", "0">>)]

\* another complete presentation: its theme and layout parts have other names,
\* its slide has notes, it has neither document properties nor images, and a
\* second sldId names a relationship the presentation does not have
ArchiveB ==
    [id |-> "B",
     entries |-> <<CONTENT_TYPES_XML, PRESENTATION_XML, getRelationshipsPath(PRESENTATION_XML),
                   Theme2, Master1, getRelationshipsPath(Master1),
                   Layout2, getRelationshipsPath(Layout2),
                   Slide1, getRelationshipsPath(Slide1), Notes1>>,
     rels |-> <<
        <<getRelationshipsPath(PRESENTATION_XML),
          <<Rel("rId1", "slide", <<"slides", "slide1.xml">>),
            Rel("rId2", "slideMaster", <<"slideMasters", "slideMaster1.xml">>)>> >>,
        <<getRelationshipsPath(Master1),
          <<Rel("rId1", "theme", <<"..", "theme", "theme2.xml">>)>> >>,
        <<getRelationshipsPath(Layout2),
          <<Rel("rId1", "slideMaster", <<"..", "slideMasters", "slideMaster1.xml">>)>> >>,
        <<getRelationshipsPath(Slide1),
          <<Rel("rId1", "slideLayout", <<"..", "slideLayouts", "slideLayout2.xml">>),
            Rel("rId2", "notesSlide", <<"..", "notesSlides", "notesSlide1.xml">>)>> >> >>,
     sldIds |-> <<[id |-> Text(<<"2", "5", "7">>), rid |-> "rId1"],
                  [id |-> Text(<<"2", "5", "8">>), rid |-> "rId9"]>>,
     cx |-> Undefined]

\* an archive without [Content_Types].xml
ArchiveNoTypes ==
    [id |-> "NoTypes",
     entries |-> <<PRESENTATION_XML, getRelationshipsPath(PRESENTATION_XML), Theme1>>,
     rels |-> << <<getRelationshipsPath(PRESENTATION_XML), <<>> >> >>,
     sldIds |-> <<>>,
     cx |-> Undefined]

\* an archive without ppt/presentation.xml: its theme and master are parsed
\* before the presentation part is asked for
ArchiveNoPres ==
    [id |-> "NoPres",
     entries |-> <<CONTENT_TYPES_XML, Theme1, Master1, getRelationshipsPath(Master1)>>,
     rels |-> <<
        <<getRelationshipsPath(Master1),
          <<Rel("rId1", "theme", <<"..", "theme", "theme1.xml">>)>> >> >>,
     sldIds |-> <<>>,
     cx |-> Undefined]

\* an archive without a theme part: the theme relationship of its master and
\* the layout relationship of its slide name parts the archive does not hold
ArchiveNoTheme ==
    [id |-> "NoTheme",
     entries |-> <<CONTENT_TYPES_XML, PRESENTATION_XML, getRelationshipsPath(PRESENTATION_XML),
                   Master1, getRelationshipsPath(Master1),
                   Slide1, getRelationshipsPath(Slide1)>>,
     rels |-> <<
        <<getRelationshipsPath(PRESENTATION_XML),
          <<Rel("rId1", "slideMaster", <<"slideMasters", "slideMaster1.xml">>),
            Rel("rId2", "slide", <<"slides", "slide1.xml">>)>> >>,
        <<getRelationshipsPath(Master1),
          <<Rel("rId1", "theme", <<"..", "theme", "theme1.xml">>)>> >>,
        <<getRelationshipsPath(Slide1),
          <<Rel("rId1", "slideLayout", <<"..", "slideLayouts", "slideLayout1.xml">>)>> >> >>,
     sldIds |-> <<[id |-> Text(<<"2", "5", "6">>), rid |-> "rId2"]>>,
     cx |-> Undefined]

ArchiveIds == {"A", "B", "NoTypes", "NoPres", "NoTheme"}

Archive(id) ==
    CASE id = "A" -> ArchiveA
      [] id = "B" -> ArchiveB
      [] id = "NoTypes" -> ArchiveNoTypes
      [] id = "NoPres" -> ArchiveNoPres
      [] id = "NoTheme" -> ArchiveNoTheme

\* the elements of a sequence, as a set
Range(s) == {s[i] : i \in DOMAIN s}

\* zip.file(path) is not null
HasFile(zip, path) == path \in Range(Archive(zip).entries)

\* the tree xmlParser.parse gives for the part at path of the archive zip
Xml(zip, path) == [t |-> "xml", arch |-> zip, path |-> path]

(***************************************************************************)
(* Map: a JavaScript Map is the sequence of its <<key, value>> entries in  *)
(* insertion order                                                         *)
(***************************************************************************)
MapHas(map, key) == \E i \in DOMAIN map : map[i][1] = key

\* map.get(key), or `absent` without the key
MapGet(map, key, absent) ==
    IF MapHas(map, key) THEN map[CHOOSE i \in DOMAIN map : map[i][1] = key][2] ELSE absent

\* map.set(key, value): a key already there keeps its place
MapSet(map, key, value) ==
    IF MapHas(map, key)
    THEN [i \in DOMAIN map |-> IF map[i][1] = key THEN <<key, value>> ELSE map[i]]
    ELSE Append(map, <<key, value>>)

\* Array.from(map.values())
MapValues(map) == [i \in DOMAIN map |-> map[i][2]]

(***************************************************************************)
(* PPTXParser: what a call reads and writes                                *)
(*                                                                         *)
(* ps is the parser instance with the objects its fields refer to, cs the  *)
(* frame of one parse call.  An operator that runs code of the parser      *)
(* gives the pair of both as they are when the code reaches its next await *)
(* (cs.pc names the await) or its end.                                     *)
(***************************************************************************)
Ret(ps, cs) == [ps |-> ps, cs |-> cs]

\* the frame of parse(data) when it is called
NewCall(data) ==
    [data |-> data, pc |-> "load", outcome |-> "running", message |-> <<>>,
     files |-> <<>>, idx |-> 1, pending |-> Null, rels |-> <<>>, presRels |-> <<>>,
     path |-> <<"">>, xml |-> Null, layoutId |-> <<"">>, masterId |-> <<"">>,
     properties |-> Undefined, metadata |-> Undefined, slides |-> <<>>, images |-> <<>>,
     result |-> Undefined, returned |-> Undefined]

\* mutant of reset: the relationship cache is kept
resetKeepingRelationships(ps) ==
    [ps EXCEPT !.zip = Null,
               !.warnings = Len(ps.arrays) + 1,
               !.errors = Len(ps.arrays) + 2,
               !.arrays = ps.arrays \o << <<>>, <<>> >>,
               !.contentTypes = <<>>,
               !.themes = <<>>,
               !.masters = <<>>,
               !.layouts = <<>>]

\* PPTXParser.reset: two new arrays, the five maps cleared in place
reset(ps) ==
    [ps EXCEPT !.zip = Null,
               !.warnings = Len(ps.arrays) + 1,
               !.errors = Len(ps.arrays) + 2,
               !.arrays = ps.arrays \o << <<>>, <<>> >>,
               !.contentTypes = <<>>,
               !.relationships = <<>>,
               !.themes = <<>>,
               !.masters = <<>>,
               !.layouts = <<>>]

\* PPTXParser.addWarning('FILE_NOT_FOUND', ..., path): pushed on the array
\* this.warnings refers to now
addWarning(ps, path) ==
    [ps EXCEPT !.arrays[ps.warnings] =
        Append(@, [code |-> "FILE_NOT_FOUND", location |-> path])]

\* PPTXParser.readXml up to its return: the tree or null, or the throw
readXml(ps, path) ==
    IF ps.zip = Null THEN [ps |-> ps, value |-> Null, threw |-> TRUE]
    ELSE IF ~HasFile(ps.zip.arch, path)
         THEN [ps |-> addWarning(ps, path), value |-> Null, threw |-> FALSE]
         ELSE [ps |-> ps, value |-> Xml(ps.zip.arch, path), threw |-> FALSE]

\* PPTXParser.readBinary up to its return
readBinary(ps, path) ==
    IF ps.zip = Null THEN [ps |-> ps, value |-> Null, threw |-> TRUE]
    ELSE IF ~HasFile(ps.zip.arch, path)
         THEN [ps |-> ps, value |-> Null, threw |-> FALSE]
         ELSE [ps |-> ps, value |-> [t |-> "data", arch |-> ps.zip.arch, path |-> path],
               threw |-> FALSE]

\* an exception on its way to the catch of parse
Throw(ps, cs, message) == Ret(ps, [cs EXCEPT !.pc = "catch", !.message = message])

\* `await` of a read r: the call goes on at pc with what was read, or the
\* rejection travels to the catch of parse
Await(cs, r, pc) ==
    IF r.threw THEN Throw(r.ps, cs, <<"ZIP not loaded">>)
    ELSE Ret(r.ps, [cs EXCEPT !.pc = pc, !.pending = r.value])

\* path.endsWith('.xml') of the last segment of a path
EndsWithXml(name) ==
    name \in {"[Content_Types].xml", "presentation.xml", "theme1.xml", "theme2.xml",
              "slideMaster1.xml", "slideLayout1.xml", "slideLayout2.xml", "slide1.xml",
              "notesSlide1.xml", "core.xml", "app.xml"}

\* the image extensions of parseResources
IsImageName(name) == name \in {"image1.png"}

\* Object.keys(this.zip.files).filter(...) of parseThemes, parseSlideMasters
\* and parseSlideLayouts: the paths that start with ppt/<folder>/, end with
\* .xml and do not include _rels
PartsIn(zip, folder) ==
    SelectSeq(Archive(zip.arch).entries,
              LAMBDA p : /\ Len(p) >= 3 /\ p[1] = "ppt" /\ p[2] = folder
                         /\ EndsWithXml(Last(p))
                         /\ \A i \in DOMAIN p : p[i] # "_rels")

\* the imageFiles of parseResources
ImagesIn(zip) ==
    SelectSeq(Archive(zip.arch).entries,
              LAMBDA p : /\ Len(p) >= 3 /\ p[1] = "ppt" /\ p[2] = "media"
                         /\ IsImageName(Last(p)))

\* RelationshipParser.parse(xml, basePath): the relationships by Id, in the
\* order of the part; none for a null xml
RelationshipParse(xml) ==
    IF xml = Null THEN <<>>
    ELSE LET list == MapGet(Archive(xml.arch).rels, xml.path, <<>>)
         IN  [i \in DOMAIN list |->
                <<list[i].id, [target |-> list[i].target, type |-> list[i].type]>>]

\* the target of the first relationship whose type includes the word, resolved
\* against path; Undefined when there is none.  The relationship types are
\* written by their last segment, and none of the four words looked for is
\* part of another.
RECURSIVE FirstOfType(_, _, _)
FirstOfType(rels, word, i) ==
    IF i > Len(rels) THEN Undefined
    ELSE IF rels[i][2].type = word THEN [t |-> "rel", target |-> rels[i][2].target]
    ELSE FirstOfType(rels, word, i + 1)

\* parseRelationships(forPath) up to its first await: the cached map is
\* returned (the call goes on at pcRet), or the .rels part is read
EnterRelationships(ps, cs, forPath, pcRead, pcRet) ==
    IF MapHas(ps.relationships, forPath)
    THEN Ret(ps, [cs EXCEPT !.pc = pcRet, !.rels = MapGet(ps.relationships, forPath, <<>>)])
    ELSE Await(cs, readXml(ps, getRelationshipsPath(forPath)), pcRead)

\* parseRelationships(forPath) after its readXml: the map is parsed, cached
\* and returned
StoreRelationships(ps, cs, forPath, pcRet) ==
    LET rels == RelationshipParse(cs.pending)
    IN  Ret([ps EXCEPT !.relationships = MapSet(@, forPath, rels)],
            [cs EXCEPT !.pc = pcRet, !.rels = rels])

(***************************************************************************)
(* PPTXParser: the functions parse awaits, each from its call to its first *)
(* await (Enter...) and from one await to the next (After...)              *)
(***************************************************************************)
\* parseContentTypes
EnterContentTypes(ps, cs) == Await(cs, readXml(ps, CONTENT_TYPES_XML), "ct.read")

\* the table is only written, never read: it holds the archive it was read from
AfterContentTypesRead(ps, cs) ==
    IF cs.pending = Null THEN Throw(ps, cs, <<"Missing [Content_Types].xml">>)
    ELSE Ret([ps EXCEPT !.contentTypes = MapSet(@, <<".xml">>, cs.pending.arch)],
             [cs EXCEPT !.pc = "ct.ret"])

\* parseThemes: the loop from its idx-th file on
LoopThemes(ps, cs) ==
    IF cs.idx > Len(cs.files) THEN Ret(ps, [cs EXCEPT !.pc = "themes.ret"])
    ELSE Await(cs, readXml(ps, cs.files[cs.idx]), "themes.read")

EnterThemes(ps, cs) ==
    IF ps.zip = Null THEN Ret(ps, [cs EXCEPT !.pc = "themes.ret"])
    ELSE LoopThemes(ps, [cs EXCEPT !.files = PartsIn(ps.zip, "theme"), !.idx = 1])

\* ThemeParser.parse(xml)
ThemeParse(xml) == [t |-> "theme", src |-> xml]

AfterThemeRead(ps, cs) ==
    LET themePath == cs.files[cs.idx]
        ps1 == IF cs.pending = Null THEN ps
               ELSE [ps EXCEPT !.themes = MapSet(@, themePath, ThemeParse(cs.pending))]
    IN  LoopThemes(ps1, [cs EXCEPT !.idx = @ + 1])

\* parseSlideMasters
LoopMasters(ps, cs) ==
    IF cs.idx > Len(cs.files) THEN Ret(ps, [cs EXCEPT !.pc = "masters.ret"])
    ELSE Await(cs, readXml(ps, cs.files[cs.idx]), "masters.read")

\* mutant of EnterMasters: the masters are not built before the layouts
EnterMastersSkipped(ps, cs) == Ret(ps, [cs EXCEPT !.pc = "masters.ret"])

EnterMasters(ps, cs) ==
    IF ps.zip = Null THEN Ret(ps, [cs EXCEPT !.pc = "masters.ret"])
    ELSE LoopMasters(ps, [cs EXCEPT !.files = PartsIn(ps.zip, "slideMasters"), !.idx = 1])

AfterMasterRead(ps, cs) ==
    IF cs.pending = Null THEN LoopMasters(ps, [cs EXCEPT !.idx = @ + 1])
    ELSE EnterRelationships(ps, [cs EXCEPT !.xml = cs.pending], cs.files[cs.idx],
                            "masters.rels.read", "masters.rels")

\* SlideParser.parseMaster(xml, path, theme, rels)
parseMaster(xml, path, theme) ==
    [id |-> path, src |-> xml, theme |-> theme, layouts |-> <<>>]

\* the theme of the master is the one its relationship names, else the first
\* of this.themes, else undefined; the master is a new object
AfterMasterRels(ps, cs) ==
    LET masterPath == cs.files[cs.idx]
        rel == FirstOfType(cs.rels, "theme", 1)
        named == IF rel = Undefined THEN Undefined
                 ELSE MapGet(ps.themes, resolvePath(masterPath, rel.target), Undefined)
        theme == IF named # Undefined THEN named
                 ELSE IF ps.themes # <<>> THEN ps.themes[1][2]
                 ELSE Undefined
        master == parseMaster(cs.xml, masterPath, theme)
        ref == Len(ps.masterObjs) + 1
    IN  LoopMasters([ps EXCEPT !.masterObjs = Append(@, master),
                               !.masters = MapSet(@, masterPath, ref)],
                    [cs EXCEPT !.idx = @ + 1])

\* parseSlideLayouts
LoopLayouts(ps, cs) ==
    IF cs.idx > Len(cs.files) THEN Ret(ps, [cs EXCEPT !.pc = "layouts.ret"])
    ELSE Await(cs, readXml(ps, cs.files[cs.idx]), "layouts.read")

EnterLayouts(ps, cs) ==
    IF ps.zip = Null THEN Ret(ps, [cs EXCEPT !.pc = "layouts.ret"])
    ELSE LoopLayouts(ps, [cs EXCEPT !.files = PartsIn(ps.zip, "slideLayouts"), !.idx = 1])

AfterLayoutRead(ps, cs) ==
    IF cs.pending = Null THEN LoopLayouts(ps, [cs EXCEPT !.idx = @ + 1])
    ELSE EnterRelationships(ps, [cs EXCEPT !.xml = cs.pending], cs.files[cs.idx],
                            "layouts.rels.read", "layouts.rels")

\* SlideParser.parseLayout(xml, path, masterId, rels)
parseLayout(xml, path, masterId) == [id |-> path, src |-> xml, masterId |-> masterId]

\* the layout is registered and pushed on the layouts of the master that
\* this.masters holds under masterId
AfterLayoutRels(ps, cs) ==
    LET layoutPath == cs.files[cs.idx]
        rel == FirstOfType(cs.rels, "slideMaster", 1)
        masterId == IF rel = Undefined THEN <<"">> ELSE resolvePath(layoutPath, rel.target)
        layout == parseLayout(cs.xml, layoutPath, masterId)
        ref == MapGet(ps.masters, masterId, 0)
        ps1 == [ps EXCEPT !.layouts = MapSet(@, layoutPath, layout)]
        ps2 == IF ref = 0 THEN ps1
               ELSE [ps1 EXCEPT !.masterObjs[ref].layouts = Append(@, layout)]
    IN  LoopLayouts(ps2, [cs EXCEPT !.idx = @ + 1])

\* parsePresentationProperties
EnterProperties(ps, cs) == Await(cs, readXml(ps, PRESENTATION_XML), "props.read")

DefaultSlideWidth == Text(<<"9", "1", "4", "4", "0", "0", "0">>)

\* mutant of AfterPropertiesRead: a missing presentation part gives the defaults
AfterPropertiesReadLenient(ps, cs) ==
    LET cx == IF cs.pending = Null THEN Undefined ELSE Archive(cs.pending.arch).cx
    IN  Ret(ps, [cs EXCEPT !.pc = "props.ret",
                           !.properties = [slideWidth |-> parseInt(OrElse(cx, DefaultSlideWidth))]])

AfterPropertiesRead(ps, cs) ==
    IF cs.pending = Null THEN Throw(ps, cs, <<"Missing presentation.xml">>)
    ELSE LET cx == Archive(cs.pending.arch).cx
         IN  Ret(ps, [cs EXCEPT !.pc = "props.ret",
                        !.properties = [slideWidth |-> parseInt(OrElse(cx, DefaultSlideWidth))]])

\* parseMetadata
EnterMetadata(ps, cs) ==
    Await([cs EXCEPT !.metadata = [core |-> Undefined, version |-> Undefined]],
          readXml(ps, CoreXml), "meta.core")

AfterCoreRead(ps, cs) ==
    LET cs1 == IF cs.pending = Null THEN cs ELSE [cs EXCEPT !.metadata.core = cs.pending]
    IN  Await(cs1, readXml(ps, AppXml), "meta.app")

AfterAppRead(ps, cs) ==
    Ret(ps, IF cs.pending = Null THEN [cs EXCEPT !.pc = "meta.ret"]
            ELSE [cs EXCEPT !.pc = "meta.ret", !.metadata.version = cs.pending])

\* target.replace('../', ''): the first '..' segment that another follows is
\* taken out
RECURSIVE ReplaceParent(_)
ReplaceParent(target) ==
    IF Len(target) < 2 THEN target
    ELSE IF Head(target) = ".." THEN Tail(target)
    ELSE <<Head(target)>> \o ReplaceParent(Tail(target))

\* SlideParser.parseSlide(slideXml, slideId, i, layoutId, masterId, slideRels, notesXml)
parseSlide(xml, id, index, layoutId, masterId, notesXml) ==
    [id |-> id, index |-> index, layoutId |-> layoutId, masterId |-> masterId,
     src |-> xml, notes |-> IF notesXml = Null THEN Undefined ELSE notesXml]

\* parseSlides: the loop from its idx-th sldId on; a sldId without a
\* relationship is passed over without an await
RECURSIVE LoopSlides(_, _)
LoopSlides(ps, cs) ==
    IF cs.idx > Len(cs.files) THEN Ret(ps, [cs EXCEPT !.pc = "slides.ret"])
    ELSE LET rel == MapGet(cs.presRels, cs.files[cs.idx].rid, Undefined)
         IN  IF rel = Undefined THEN LoopSlides(ps, [cs EXCEPT !.idx = @ + 1])
             ELSE LET slidePath == <<"ppt">> \o ReplaceParent(rel.target)
                  IN  Await([cs EXCEPT !.path = slidePath], readXml(ps, slidePath),
                            "slides.read")

EnterSlides(ps, cs) ==
    Await([cs EXCEPT !.slides = <<>>], readXml(ps, PRESENTATION_XML), "slides.pres")

AfterSlidesPresRead(ps, cs) ==
    IF cs.pending = Null \/ Archive(cs.pending.arch).sldIds = <<>>
    THEN Ret(ps, [cs EXCEPT !.pc = "slides.ret"])
    ELSE EnterRelationships(ps, [cs EXCEPT !.files = Archive(cs.pending.arch).sldIds],
                            PRESENTATION_XML, "slides.prels.read", "slides.prels")

AfterSlidesPresRels(ps, cs) ==
    LoopSlides(ps, [cs EXCEPT !.presRels = cs.rels, !.idx = 1])

AfterSlideRead(ps, cs) ==
    IF cs.pending = Null THEN LoopSlides(ps, [cs EXCEPT !.idx = @ + 1])
    ELSE EnterRelationships(ps, [cs EXCEPT !.xml = cs.pending], cs.path,
                            "slides.rels.read", "slides.rels")

\* the slide is parsed and pushed, and the loop goes on
PushSlide(ps, cs, notesXml) ==
    LET sldId == cs.files[cs.idx]
        slide == parseSlide(cs.xml, parseInt(sldId.id), cs.idx - 1,
                            cs.layoutId, cs.masterId, notesXml)
    IN  LoopSlides(ps, [cs EXCEPT !.slides = Append(@, slide), !.idx = @ + 1])

\* the layout and master of the slide are looked up in this.layouts; the
\* notes part is read when the slide has one (options.parseNotes)
AfterSlideRels(ps, cs) ==
    LET rel == FirstOfType(cs.rels, "slideLayout", 1)
        layoutId == IF rel = Undefined THEN <<"">> ELSE resolvePath(cs.path, rel.target)
        layout == MapGet(ps.layouts, layoutId, Undefined)
        masterId == IF layout = Undefined THEN <<"">> ELSE layout.masterId
        cs1 == [cs EXCEPT !.layoutId = layoutId, !.masterId = masterId]
        notes == FirstOfType(cs.rels, "notesSlide", 1)
    IN  IF notes = Undefined THEN PushSlide(ps, cs1, Null)
        ELSE Await(cs1, readXml(ps, resolvePath(cs.path, notes.target)), "slides.notes")

AfterNotesRead(ps, cs) == PushSlide(ps, cs, cs.pending)

\* parseResources (imageLoading 'eager', extractEmbedded).  After the images
\* the keys of this.zip.files are asked for again, which throws a TypeError
\* when this.zip is null; the archives hold no media, embedding or font.
LoopImages(ps, cs) ==
    IF cs.idx > Len(cs.files)
    THEN IF ps.zip = Null THEN Throw(ps, cs, <<"TypeError">>)
         ELSE Ret(ps, [cs EXCEPT !.pc = "res.ret"])
    ELSE Await(cs, readBinary(ps, cs.files[cs.idx]), "res.image")

EnterResources(ps, cs) ==
    IF ps.zip = Null THEN Ret(ps, [cs EXCEPT !.pc = "res.ret", !.images = <<>>])
    ELSE LoopImages(ps, [cs EXCEPT !.images = <<>>, !.files = ImagesIn(ps.zip), !.idx = 1])

AfterImageRead(ps, cs) ==
    LET cs1 == IF cs.pending = Null THEN cs
               ELSE [cs EXCEPT !.images = MapSet(@, cs.files[cs.idx], cs.pending)]
    IN  LoopImages(ps, [cs1 EXCEPT !.idx = @ + 1])

(***************************************************************************)
(* PPTXParser: the result of parse                                         *)
(*                                                                         *)
(* The result refers to objects: the masters are the master objects of     *)
(* this.masters, warnings is the array this.warnings refers to, and        *)
(* resources.themes is the map this.themes itself.  errors is a new array. *)
(***************************************************************************)
\* what a caller reads through a result while the parser is ps
Contents(ps, result) ==
    [presentation |->
        [properties |-> result.properties,
         metadata |-> result.metadata,
         masters |-> [i \in DOMAIN result.masters |-> ps.masterObjs[result.masters[i]]],
         slides |-> result.slides,
         resources |-> [images |-> result.images, themes |-> ps.themes]],
     warnings |-> ps.arrays[result.warnings],
     errors |-> result.errors]

\* the end of the try block of parse
Return(ps, cs) ==
    LET result == [properties |-> cs.properties,
                   metadata |-> cs.metadata,
                   masters |-> MapValues(ps.masters),
                   slides |-> cs.slides,
                   images |-> cs.images,
                   warnings |-> ps.warnings,
                   errors |-> SelectSeq(ps.arrays[ps.errors], LAMBDA e : ~e.fatal)]
    IN  Ret(ps, [cs EXCEPT !.pc = "done", !.outcome = "returned", !.result = result,
                           !.returned = Contents(ps, result)])

\* the catch block of parse: the error is pushed on the array this.errors
\* refers to now, and thrown again
Catch(ps, cs) ==
    Ret([ps EXCEPT !.arrays[ps.errors] =
            Append(@, [code |-> "PARSE_ERROR", message |-> cs.message, fatal |-> TRUE])],
        [cs EXCEPT !.pc = "done", !.outcome = "thrown"])

Zip(data) == [t |-> "zip", arch |-> data]

\* the code a suspended call runs when it is resumed, up to its next await
Continue(ps, cs) ==
    CASE cs.pc = "load" -> EnterContentTypes([ps EXCEPT !.zip = Zip(cs.data)], cs)
      [] cs.pc = "ct.read" -> AfterContentTypesRead(ps, cs)
      [] cs.pc = "ct.ret" ->
            EnterRelationships(ps, cs, PRESENTATION_XML, "prel.read", "prel.ret")
      [] cs.pc = "prel.read" -> StoreRelationships(ps, cs, PRESENTATION_XML, "prel.ret")
      [] cs.pc = "prel.ret" -> EnterThemes(ps, cs)
      [] cs.pc = "themes.read" -> AfterThemeRead(ps, cs)
      [] cs.pc = "themes.ret" -> EnterMasters(ps, cs)
      [] cs.pc = "masters.read" -> AfterMasterRead(ps, cs)
      [] cs.pc = "masters.rels.read" ->
            StoreRelationships(ps, cs, cs.files[cs.idx], "masters.rels")
      [] cs.pc = "masters.rels" -> AfterMasterRels(ps, cs)
      [] cs.pc = "masters.ret" -> EnterLayouts(ps, cs)
      [] cs.pc = "layouts.read" -> AfterLayoutRead(ps, cs)
      [] cs.pc = "layouts.rels.read" ->
            StoreRelationships(ps, cs, cs.files[cs.idx], "layouts.rels")
      [] cs.pc = "layouts.rels" -> AfterLayoutRels(ps, cs)
      [] cs.pc = "layouts.ret" -> EnterProperties(ps, cs)
      [] cs.pc = "props.read" -> AfterPropertiesRead(ps, cs)
      [] cs.pc = "props.ret" -> EnterMetadata(ps, cs)
      [] cs.pc = "meta.core" -> AfterCoreRead(ps, cs)
      [] cs.pc = "meta.app" -> AfterAppRead(ps, cs)
      [] cs.pc = "meta.ret" -> EnterSlides(ps, cs)
      [] cs.pc = "slides.pres" -> AfterSlidesPresRead(ps, cs)
      [] cs.pc = "slides.prels.read" ->
            StoreRelationships(ps, cs, PRESENTATION_XML, "slides.prels")
      [] cs.pc = "slides.prels" -> AfterSlidesPresRels(ps, cs)
      [] cs.pc = "slides.read" -> AfterSlideRead(ps, cs)
      [] cs.pc = "slides.rels.read" -> StoreRelationships(ps, cs, cs.path, "slides.rels")
      [] cs.pc = "slides.rels" -> AfterSlideRels(ps, cs)
      [] cs.pc = "slides.notes" -> AfterNotesRead(ps, cs)
      [] cs.pc = "slides.ret" -> EnterResources(ps, cs)
      [] cs.pc = "res.image" -> AfterImageRead(ps, cs)
      [] cs.pc = "res.ret" -> Return(ps, cs)
      [] cs.pc = "catch" -> Catch(ps, cs)

\* the awaits of parse at which the function it called has returned, and the
\* end of parse
ReturnPoints ==
    {"ct.ret", "prel.ret", "themes.ret", "masters.ret", "layouts.ret", "props.ret",
     "meta.ret", "slides.ret", "res.ret", "done"}

\* the locals of a function that has returned are gone: what is left of the
\* frame is what parse itself holds
Forget(cs) ==
    [NewCall(cs.data) EXCEPT !.pc = cs.pc, !.outcome = cs.outcome, !.message = cs.message,
                             !.properties = cs.properties, !.metadata = cs.metadata,
                             !.slides = cs.slides, !.images = cs.images,
                             !.result = cs.result, !.returned = cs.returned]

\* the pair r with the frame cut down when the call is at a return point
Settle(r) == IF r.cs.pc \in ReturnPoints THEN Ret(r.ps, Forget(r.cs)) ELSE r

\* one resumption of a call
Step(ps, cs) == Settle(Continue(ps, cs))

\* the call of the pair r run to its end with no other call
RECURSIVE RunAlone(_)
RunAlone(r) ==
    IF r.cs.outcome # "running"
    THEN [outcome |-> r.cs.outcome, returned |-> r.cs.returned]
    ELSE RunAlone(Step(r.ps, r.cs))

\* what parse(data) gives on a parser just constructed
FreshResult(data) == RunAlone(Ret(reset(NewParser), NewCall(data)))

(***************************************************************************)
(* PPTXParser: parse calls on one parser instance                          *)
(***************************************************************************)
\* the parse calls made on the instance
MaxCalls == 2

Calls == DOMAIN calls

Running(c) == calls[c].outcome = "running"

\* parse(data) is called: reset() runs, and the call is suspended at
\* JSZip.loadAsync
Parse(data) ==
    /\ Len(calls) < MaxCalls
    /\ parser' = reset(parser)
    /\ calls' = Append(calls, NewCall(data))
    /\ UNCHANGED notParserVars

\* parse(data) is called when every earlier call has returned or thrown
ParseInTurn(data) ==
    /\ \A c \in Calls : ~Running(c)
    /\ Parse(data)

\* the parser and the frame of the call c become the pair r
Resumed(c, r) ==
    /\ parser' = r.ps
    /\ calls' = [calls EXCEPT ![c] = r.cs]

\* the call c, suspended at one of the awaits pcs, is resumed and runs to its
\* next await
Resume(c, pcs) ==
    /\ calls[c].pc \in pcs
    /\ Resumed(c, Step(parser, calls[c]))
    /\ UNCHANGED notParserVars

ResumeLoad(c) == Resume(c, {"load"})

ResumeContentTypes(c) == Resume(c, {"ct.read", "ct.ret"})

ResumeRelationships(c) == Resume(c, {"prel.read", "prel.ret"})

ResumeThemes(c) == Resume(c, {"themes.read", "themes.ret"})

ResumeSlideMasters(c) ==
    Resume(c, {"masters.read", "masters.rels.read", "masters.rels", "masters.ret"})

ResumeSlideLayouts(c) ==
    Resume(c, {"layouts.read", "layouts.rels.read", "layouts.rels", "layouts.ret"})

ResumeProperties(c) == Resume(c, {"props.read", "props.ret"})

ResumeMetadata(c) == Resume(c, {"meta.core", "meta.app", "meta.ret"})

ResumeSlides(c) ==
    Resume(c, {"slides.pres", "slides.prels.read", "slides.prels", "slides.read",
               "slides.rels.read", "slides.rels", "slides.notes", "slides.ret"})

ResumeResources(c) == Resume(c, {"res.image", "res.ret"})

ResumeCatch(c) == Resume(c, {"catch"})

InitParse == ParserIdle /\ OthersIdle("parser")

\* the calls follow one another
NextParse ==
    \/ \E data \in ArchiveIds : ParseInTurn(data)
    \/ \E c \in Calls : ResumeLoad(c)
    \/ \E c \in Calls : ResumeContentTypes(c)
    \/ \E c \in Calls : ResumeRelationships(c)
    \/ \E c \in Calls : ResumeThemes(c)
    \/ \E c \in Calls : ResumeSlideMasters(c)
    \/ \E c \in Calls : ResumeSlideLayouts(c)
    \/ \E c \in Calls : ResumeProperties(c)
    \/ \E c \in Calls : ResumeMetadata(c)
    \/ \E c \in Calls : ResumeSlides(c)
    \/ \E c \in Calls : ResumeResources(c)
    \/ \E c \in Calls : ResumeCatch(c)

SpecParse == InitParse /\ [][NextParse]_vars

\* a call may start while another is suspended
NextOverlap ==
    \/ \E data \in ArchiveIds : Parse(data)
    \/ \E c \in Calls : ResumeLoad(c)
    \/ \E c \in Calls : ResumeContentTypes(c)
    \/ \E c \in Calls : ResumeRelationships(c)
    \/ \E c \in Calls : ResumeThemes(c)
    \/ \E c \in Calls : ResumeSlideMasters(c)
    \/ \E c \in Calls : ResumeSlideLayouts(c)
    \/ \E c \in Calls : ResumeProperties(c)
    \/ \E c \in Calls : ResumeMetadata(c)
    \/ \E c \in Calls : ResumeSlides(c)
    \/ \E c \in Calls : ResumeResources(c)
    \/ \E c \in Calls : ResumeCatch(c)

SpecOverlap == InitParse /\ [][NextOverlap]_vars

(***************************************************************************)
(* Claims on parse                                                         *)
(***************************************************************************)
\* the archive holds both parts parse cannot do without
HasRequiredParts(data) ==
    HasFile(data, CONTENT_TYPES_XML) /\ HasFile(data, PRESENTATION_XML)

\* the slides of the archive: its sldIds whose relationship leads to a part
SlidesOf(data) ==
    LET presRels == MapGet(Archive(data).rels, getRelationshipsPath(PRESENTATION_XML), <<>>)
    IN  SelectSeq(Archive(data).sldIds,
                  LAMBDA sldId : \E i \in DOMAIN presRels :
                        /\ presRels[i].id = sldId.rid
                        /\ HasFile(data, <<"ppt">> \o presRels[i].target))

\* a Presentation that lacks nothing of the archive: properties, metadata,
\* every master, slide, theme and image
Complete(returned, data) ==
    LET presentation == returned.presentation
        zip == Zip(data)
    IN  /\ presentation.properties # Undefined
        /\ presentation.metadata # Undefined
        /\ [i \in DOMAIN presentation.masters |-> presentation.masters[i].id]
              = PartsIn(zip, "slideMasters")
        /\ [i \in DOMAIN presentation.slides |-> presentation.slides[i].id]
              = [i \in DOMAIN SlidesOf(data) |-> parseInt(SlidesOf(data)[i].id)]
        /\ [i \in DOMAIN presentation.resources.themes |-> presentation.resources.themes[i][1]]
              = PartsIn(zip, "theme")
        /\ [i \in DOMAIN presentation.resources.images |-> presentation.resources.images[i][1]]
              = ImagesIn(zip)

\* C1: parse is all-or-nothing.  When the calls follow one another, a call
\* whose archive lacks [Content_Types].xml or ppt/presentation.xml ends by
\* throwing and hands no result, not even a partial Presentation; a call
\* on any other archive returns a complete Presentation with the warnings.
C1_ParseIsAllOrNothing ==
    \A c \in Calls :
        ~Running(c) =>
            IF HasRequiredParts(calls[c].data)
            THEN /\ calls[c].outcome = "returned"
                 /\ Complete(calls[c].returned, calls[c].data)
                 /\ \A i \in DOMAIN calls[c].returned.warnings :
                        calls[c].returned.warnings[i].code = "FILE_NOT_FOUND"
            ELSE /\ calls[c].outcome = "thrown"
                 /\ calls[c].result = Undefined
                 /\ calls[c].returned = Undefined

\* a call has thrown for a missing ppt/presentation.xml after its master was
\* built, and another has returned a Presentation
C1_Witness ==
    \E c, d \in Calls :
        /\ calls[c].outcome = "thrown"
        /\ calls[c].message = <<"Missing presentation.xml">>
        /\ parser.masterObjs # <<>>
        /\ calls[d].outcome = "returned"
        /\ calls[d].returned.presentation.slides # <<>>

\* C2: when the calls on one parser follow one another, every call after the
\* first ends as the same call ends on a parser just constructed: the same
\* outcome and, when it returns, the same Presentation, warnings and
\* errors, whether the call before it returned or threw.
C2_SecondParseAsOnFreshInstance ==
    \A c \in Calls :
        (c > 1 /\ ~Running(c)) =>
            [outcome |-> calls[c].outcome, returned |-> calls[c].returned]
                = FreshResult(calls[c].data)

\* B has been parsed after A on the same parser, and B has been parsed after
\* a parse that threw
C2_Witness ==
    /\ Len(calls) = 2
    /\ calls[1].data # calls[2].data
    /\ calls[1].outcome \in {"returned", "thrown"}
    /\ calls[2].outcome = "returned"
    /\ calls[2].returned.presentation.masters # <<>>
    /\ calls[2].returned.warnings # <<>>

\* what a result holds comes from the archive data alone
OnlyOf(returned, data) ==
    LET presentation == returned.presentation
    IN  /\ \A i \in DOMAIN presentation.masters :
            /\ presentation.masters[i].src.arch = data
            /\ presentation.masters[i].theme # Undefined
                  => presentation.masters[i].theme.src.arch = data
            /\ \A j \in DOMAIN presentation.masters[i].layouts :
                    presentation.masters[i].layouts[j].src.arch = data
        /\ \A i \in DOMAIN presentation.resources.themes :
                presentation.resources.themes[i][2].src.arch = data
        /\ \A i \in DOMAIN presentation.slides :
                presentation.slides[i].src.arch = data
        /\ \A i \in DOMAIN returned.warnings :
                ~HasFile(data, returned.warnings[i].location)

\* C3: when parse calls on one parser overlap, the result a call returns
\* holds only masters, layouts, themes, slides and warnings of the archive
\* the call was given.
C3_OverlappingCallsDoNotLeak ==
    \A c \in Calls :
        calls[c].outcome = "returned" => OnlyOf(calls[c].returned, calls[c].data)

\* C4: a result that parse has returned goes on holding what it held when
\* it was returned (masters, slides, warnings, resources with the themes by
\* path), whatever parse calls follow on the same parser.
C4_ResultIsSnapshot ==
    \A c \in Calls :
        calls[c].outcome = "returned" =>
            Contents(parser, calls[c].result) = calls[c].returned

\* the archive of the call holds no theme part
HasNoTheme(data) == PartsIn(Zip(data), "theme") = <<>>

\* C11: when the archive has no theme part, parse does not fail: it records a
\* warning for the theme, gives each master the default theme and returns.
C11_AbsentThemeGetsDefault ==
    \A c \in Calls :
        (~Running(c) /\ HasRequiredParts(calls[c].data) /\ HasNoTheme(calls[c].data)) =>
            /\ calls[c].outcome = "returned"
            /\ \E i \in DOMAIN calls[c].returned.warnings :
                   LET location == calls[c].returned.warnings[i].location
                   IN  Len(location) >= 2 /\ location[1] = "ppt" /\ location[2] = "theme"
            /\ \A i \in DOMAIN calls[c].returned.presentation.masters :
                   calls[c].returned.presentation.masters[i].theme # Undefined

\* the layout relationship of a slide leads to no layout part of its archive
LayoutUnresolved(slide) ==
    LET rels == RelationshipParse(Xml(slide.src.arch, getRelationshipsPath(slide.src.path)))
        rel == FirstOfType(rels, "slideLayout", 1)
    IN  \/ rel = Undefined
        \/ ~HasFile(slide.src.arch, resolvePath(slide.src.path, rel.target))

\* C12: a slide whose layout relationship cannot be resolved is still parsed
\* and returned, and its layoutId is ''.
C12_UnresolvedLayoutIsEmpty ==
    \A c \in Calls :
        (~Running(c) /\ HasRequiredParts(calls[c].data)) =>
            /\ calls[c].outcome = "returned"
            /\ Len(calls[c].returned.presentation.slides) = Len(SlidesOf(calls[c].data))
            /\ \A i \in DOMAIN calls[c].returned.presentation.slides :
                   LayoutUnresolved(calls[c].returned.presentation.slides[i]) =>
                       calls[c].returned.presentation.slides[i].layoutId = <<"">>

\* the keys of a map, in insertion order
MapKeys(map) == [i \in DOMAIN map |-> map[i][1]]

\* C14: within one parse every master is built before any layout and every
\* layout before any slide: once a layout is registered every master part of
\* the archive is in this.masters, once a slide is built every layout part is
\* in this.layouts, and a layout whose master is a part of the archive is in
\* the layouts list of that master.
C14_MastersThenLayoutsThenSlides ==
    \A c \in Calls :
        c = Len(calls) =>
            LET zip == Zip(calls[c].data)
            IN  /\ parser.layouts # <<>> =>
                       MapKeys(parser.masters) = PartsIn(zip, "slideMasters")
                /\ calls[c].slides # <<>> =>
                       MapKeys(parser.layouts) = PartsIn(zip, "slideLayouts")
                /\ \A i \in DOMAIN parser.layouts :
                       LET layout == parser.layouts[i][2]
                       IN  HasFile(calls[c].data, layout.masterId) =>
                               /\ MapHas(parser.masters, layout.masterId)
                               /\ \E j \in DOMAIN parser.masterObjs[MapGet(parser.masters, layout.masterId, 1)].layouts :
                                      parser.masterObjs[MapGet(parser.masters, layout.masterId, 1)].layouts[j] = layout

\* a slide has been built after a layout that is attached to its master
C14_Witness ==
    \E c \in Calls :
        /\ c = Len(calls)
        /\ calls[c].slides # <<>>
        /\ parser.layouts # <<>>
        /\ \E i \in DOMAIN parser.masters :
               parser.masterObjs[parser.masters[i][2]].layouts # <<>>

(***************************************************************************)
(* ShapeParser.parseFill                                                   *)
(***************************************************************************)
\* XMLParser.ensureArray: the items as a sequence
ensureArray(value) ==
    IF Falsy(value) THEN <<>>
    ELSE IF value.t = "array" THEN value.items
    ELSE <<value>>

\* XMLParser.parseBoolean with the default false
parseBoolean(value) ==
    IF value.t \in {"undefined", "null"} THEN FALSE
    ELSE value \in {Text(<<"t", "r", "u", "e">>), Text(<<"1">>), Text(<<"o", "n">>)}

\* XMLParser.parseAngle; the quotient is exact for the angles tried
\* (multiples of 60000)
parseAngle(angle) ==
    IF angle.t \in {"undefined", "null"} THEN Num(0)
    ELSE IF parseInt(angle) = NaN THEN Num(0)
    ELSE Quotient(parseInt(angle), 60000)

NoneFill == [t |-> "fill", type |-> "none"]

\* { type: 'solid', solid: { type, value, alpha, ... } }: every field of the
\* colour is copied
SolidFill(color) == [t |-> "fill", type |-> "solid", solid |-> color]

Rgb(chars) == [t |-> "colour", type |-> "rgb", value |-> Text(chars)]

\* the fallback of a fillRef without an inline colour
SchemeLt1 == [t |-> "colour", type |-> "scheme", value |-> Text(<<"l", "t", "1">>)]

\* one stop of a gradient
GradientStop(gs) ==
    [position |-> parseInt(OrElse(getAttr(gs, "pos"), Text(<<"0">>))),
     color |-> IF Falsy(parseColor(gs)) THEN Rgb(<<"#", "0", "0", "0", "0", "0", "0">>)
               ELSE parseColor(gs)]

GradientFill(gradFill) ==
    LET stops == ensureArray(getChild(getChild(gradFill, "gsLst"), "gs"))
        lin == getChild(gradFill, "lin")
    IN  [t |-> "fill", type |-> "gradient",
         gradient |-> [type |-> "linear",
                       angle |-> IF Falsy(lin) THEN Num(0) ELSE parseAngle(getAttr(lin, "ang")),
                       stops |-> [i \in DOMAIN stops |-> GradientStop(stops[i])]]]

PatternFill(pattFill) ==
    [t |-> "fill", type |-> "pattern",
     pattern |-> [preset |-> OrElse(getAttr(pattFill, "prst"), Text(<<"s", "o", "l", "i", "d">>)),
                  foregroundColor |->
                      OrElse(parseColor(getChild(pattFill, "fgClr")),
                             Rgb(<<"#", "0", "0", "0", "0", "0", "0">>)),
                  backgroundColor |->
                      OrElse(parseColor(getChild(pattFill, "bgClr")),
                             Rgb(<<"#", "F", "F", "F", "F", "F", "F">>))]]

\* the picture fill of a call without relationships: the embed id is kept
PictureFill(blipFill) ==
    LET blip == getChild(blipFill, "blip")
    IN  [t |-> "fill", type |-> "picture",
         picture |-> [embed |-> OrElse(getAttr(blip, "embed"), Text(<<>>)),
                      stretch |-> ~Falsy(getChild(blipFill, "stretch"))]]

\* the part of parseFill that looks at the style: the fillRef
FillOfStyle(style) ==
    LET fillRef == getChild(style, "fillRef")
        idx == getAttr(fillRef, "idx")
        color == parseColor(fillRef)
    IN  IF Falsy(style) \/ Falsy(fillRef) THEN Undefined
        ELSE IF ~Falsy(color) THEN SolidFill(color)
        ELSE IF ~Falsy(idx) /\ parseInt(idx).t = "number" /\ parseInt(idx).n > 0
        THEN SolidFill(SchemeLt1)
        ELSE Undefined

\* ShapeParser.parseFill(spPr, style) of a call without relationships
parseFill(spPr, style) ==
    LET solidFill == getChild(spPr, "solidFill")
        gradFill == getChild(spPr, "gradFill")
        pattFill == getChild(spPr, "pattFill")
        blipFill == getChild(spPr, "blipFill")
    IN  IF Falsy(spPr) THEN Undefined
        ELSE IF ~Falsy(getChild(spPr, "noFill")) THEN NoneFill
        ELSE IF ~Falsy(solidFill) /\ ~Falsy(parseColor(solidFill))
        THEN SolidFill(parseColor(solidFill))
        ELSE IF ~Falsy(gradFill) THEN GradientFill(gradFill)
        ELSE IF ~Falsy(pattFill) THEN PatternFill(pattFill)
        ELSE IF ~Falsy(blipFill) THEN PictureFill(blipFill)
        ELSE FillOfStyle(style)

(***************************************************************************)
(* parseFill on the shape properties and styles of a bounded set           *)
(***************************************************************************)
SrgbClr(chars) == Element({<<"val", Text(chars)>>}, {})

Red == <<"F", "F", "0", "0", "0", "0">>

Blue == <<"0", "0", "0", "0", "F", "F">>

\* <a:noFill/> as the parser gives it, and a noFill element that carries a
\* namespace declaration
NoFillForms == {EmptyElement, Element({<<"xmlns", Text(<<"a">>)>>}, {})}

\* the explicit fills a shape may carry, each under its element name
OwnFills ==
    {<<"solidFill", Element({}, {<<"srgbClr", SrgbClr(Red)>>})>>,
     <<"gradFill",
       Element({}, {<<"gsLst",
                      Element({}, {<<"gs",
                                     Array(<<Element({<<"pos", Text(<<"0">>)>>},
                                                     {<<"srgbClr", SrgbClr(Red)>>}),
                                             Element({<<"pos", Text(Decimal(100000))>>},
                                                     {<<"srgbClr", SrgbClr(Blue)>>})>>)>>})>>,
                    <<"lin", Array(<<Element({<<"ang", Text(Decimal(5400000))>>}, {})>>)>>})>>,
     <<"pattFill",
       Element({<<"prst", Text(<<"p", "c", "t", "5">>)>>},
               {<<"fgClr", Element({}, {<<"srgbClr", SrgbClr(Red)>>})>>})>>,
     <<"blipFill",
       Element({}, {<<"blip", Element({<<"embed", Text(<<"r", "I", "d", "2">>)>>}, {})>>,
                    <<"stretch", Element({}, {<<"fillRect", EmptyElement>>})>>})>>}

OwnFillNames == {"solidFill", "gradFill", "pattFill", "blipFill"}

\* the xfrm every shape properties element of the set carries
SomeXfrm == Element({}, {<<"off", Element({<<"x", Text(<<"0">>)>>, <<"y", Text(<<"0">>)>>}, {})>>})

\* no spPr, <p:spPr/>, and an spPr with a noFill or not and one explicit fill
\* or none
ShapeProperties ==
    {Undefined, EmptyElement}
    \cup {Element({}, {<<"xfrm", SomeXfrm>>} \cup noFill \cup own) :
              noFill \in {{}} \cup {{<<"noFill", f>>} : f \in NoFillForms},
              own \in {{}} \cup {{f} : f \in OwnFills}}

\* the idx values of a fillRef: absent, "0", "1", "2" and one that is no number
FillRefIdx == {{}} \cup {{<<"idx", Text(i)>>} : i \in {<<"0">>, <<"1">>, <<"2">>, <<"x">>}}

\* the inline colour of a fillRef: none, or a scheme colour
FillRefColour ==
    {{}, {<<"schemeClr", Element({<<"val", Text(<<"a", "c", "c", "e", "n", "t", "1">>)>>}, {})>>}}

FillRefs ==
    {IF idx = {} /\ colour = {} THEN EmptyElement ELSE Element(idx, colour) :
         idx \in FillRefIdx, colour \in FillRefColour}

\* no style, a style without a fillRef, and a style with each fillRef
ShapeStyles ==
    {Undefined, Element({}, {<<"lnRef", Element({<<"idx", Text(<<"1">>)>>}, {})>>})}
    \cup {Element({}, {<<"fillRef", f>>}) : f \in FillRefs}

InitFill ==
    /\ fillSpPr \in ShapeProperties
    /\ fillStyle \in ShapeStyles
    /\ fillOut = Pending
    /\ OthersIdle("fill")

\* one call of parseFill on the elements chosen
ParseFill ==
    /\ fillOut = Pending
    /\ fillOut' = parseFill(fillSpPr, fillStyle)
    /\ UNCHANGED <<fillSpPr, fillStyle>>
    /\ UNCHANGED notFillVars

NextFill == ParseFill

SpecFill == InitFill /\ [][NextFill]_vars

\* the document has a child of this name under the element
Present(element, name) == element.t = "element" /\ \E p \in element.c : p[1] = name

\* the Fill type an explicit fill element gives
FillTypeOf(name) ==
    CASE name = "solidFill" -> "solid" [] name = "gradFill" -> "gradient"
      [] name = "pattFill" -> "pattern" [] name = "blipFill" -> "picture"

\* C15: a shape's fill is resolved by first match: an explicit noFill gives no
\* fill; else an explicit solidFill, gradFill, pattFill or blipFill of the
\* shape's own properties gives the fill of its kind; else the fillRef of the
\* style gives its inline colour, and the fixed scheme colour lt1 whenever it
\* has no inline colour; else the shape has no Fill.
C15_FillResolvedInOrder ==
    fillOut # Pending =>
        IF Present(fillSpPr, "noFill") THEN fillOut = NoneFill
        ELSE IF \E k \in OwnFillNames : Present(fillSpPr, k)
        THEN /\ fillOut.t = "fill"
             /\ \E k \in OwnFillNames : Present(fillSpPr, k) /\ fillOut.type = FillTypeOf(k)
        ELSE IF Present(fillStyle, "fillRef")
        THEN IF parseColor(getChild(fillStyle, "fillRef")) # Null
             THEN fillOut = SolidFill(parseColor(getChild(fillStyle, "fillRef")))
             ELSE fillOut = SolidFill(SchemeLt1)
        ELSE fillOut = Undefined

(***************************************************************************)
(* ShapeParser.parseTable and the row loop of ShapeRenderer.renderTable    *)
(***************************************************************************)
\* one cell of parseTable.  The text body of a cell is not followed into: a
\* cell with a txBody has a text.
TableCell(tc) ==
    LET tcPr == getChild(tc, "tcPr")
        txBody == getChild(tc, "txBody")
    IN  [text |-> IF Falsy(txBody) THEN Undefined ELSE [t |-> "textBody"],
         rowSpan |-> parseInt(OrElse(getAttr(tc, "rowSpan"), Text(<<"1">>))),
         colSpan |-> parseInt(OrElse(getAttr(tc, "gridSpan"), Text(<<"1">>))),
         hMerge |-> parseBoolean(getAttr(tc, "hMerge")),
         vMerge |-> parseBoolean(getAttr(tc, "vMerge")),
         fill |-> parseFill(tcPr, Undefined),
         anchor |-> getAttr(tcPr, "anchor")]

\* mutant of TableRow: the merged tc elements are left out
TableRowUnmergedOnly(tr) ==
    LET tcElements ==
            SelectSeq(ensureArray(getChild(tr, "tc")),
                      LAMBDA tc : ~parseBoolean(getAttr(tc, "hMerge")))
    IN  [height |-> parseInt(OrElse(getAttr(tr, "h"), Text(<<"0">>))),
         cells |-> [i \in DOMAIN tcElements |-> TableCell(tcElements[i])]]

\* one row of parseTable
TableRow(tr) ==
    LET tcElements == ensureArray(getChild(tr, "tc"))
    IN  [height |-> parseInt(OrElse(getAttr(tr, "h"), Text(<<"0">>))),
         cells |-> [i \in DOMAIN tcElements |-> TableCell(tcElements[i])]]

\* ShapeParser.parseTable: the rows, the columns and the style of the Table
\* (the base properties and the transform are handed through by the caller)
parseTable(graphicData) ==
    LET tbl == getChild(graphicData, "tbl")
        tblPr == getChild(tbl, "tblPr")
        gridCols == ensureArray(getChild(getChild(tbl, "tblGrid"), "gridCol"))
        trElements == ensureArray(getChild(tbl, "tr"))
    IN  [t |-> "table", type |-> "table",
         rows |-> [i \in DOMAIN trElements |-> TableRow(trElements[i])],
         columns |-> [i \in DOMAIN gridCols |->
                          [width |-> parseInt(OrElse(getAttr(gridCols[i], "w"), Text(<<"0">>)))]],
         tableStyle |-> getAttr(tblPr, "tableStyleId"),
         firstRow |-> parseBoolean(getAttr(tblPr, "firstRow")),
         bandRow |-> parseBoolean(getAttr(tblPr, "bandRow"))]

\* ShapeRenderer.renderTable: the cells of a row that get a td
RenderedCells(row) == SelectSeq(row.cells, LAMBDA cell : ~(cell.hMerge \/ cell.vMerge))

(***************************************************************************)
(* parseTable on the tables of a bounded set                               *)
(***************************************************************************)
MaxCells == 3

\* <a:tcPr/> as the parser gives it
SomeTcPr == EmptyElement

SomeTxBody == Element({}, {<<"bodyPr", EmptyElement>>})

\* a cell, a cell spanning two grid columns, and the merged cell that follows it
TableCells ==
    {Element({}, {<<"txBody", SomeTxBody>>, <<"tcPr", SomeTcPr>>}),
     Element({<<"gridSpan", Text(<<"2">>)>>}, {<<"txBody", SomeTxBody>>, <<"tcPr", SomeTcPr>>}),
     Element({<<"hMerge", Text(<<"1">>)>>}, {<<"txBody", SomeTxBody>>, <<"tcPr", SomeTcPr>>})}

\* a row: tc is always an array
TableRows ==
    {Element({<<"h", Text(Decimal(370840))>>}, {<<"tc", Array(cells)>>}) :
         cells \in SeqsUpTo(TableCells, MaxCells) \ {<<>>}}

GridCol == Element({<<"w", Text(Decimal(2032000))>>}, {})

\* a table of one row (tr is the element itself) or of two rows (tr is an array)
TableOf(tr) ==
    Element({}, {<<"tbl", Element({}, {<<"tblGrid", Element({}, {<<"gridCol", Array(<<GridCol, GridCol>>)>>})>>,
                                        <<"tr", tr>>})>>})

Tables ==
    {TableOf(row) : row \in TableRows}
    \cup {TableOf(Array(<<r1, r2>>)) : r1 \in TableRows, r2 \in TableRows}

InitTable ==
    /\ tblNode \in Tables
    /\ tblOut = Pending
    /\ OthersIdle("table")

\* one call of parseTable on the graphicData chosen
ParseTable ==
    /\ tblOut = Pending
    /\ tblOut' = parseTable(tblNode)
    /\ UNCHANGED tblNode
    /\ UNCHANGED notTableVars

NextTable == ParseTable

SpecTable == InitTable /\ [][NextTable]_vars

\* the tc elements of the rows of the table given, row by row
SourceRows == 
    LET trs == ensureArray(getChild(getChild(tblNode, "tbl"), "tr"))
    IN  [i \in DOMAIN trs |-> ensureArray(getChild(trs[i], "tc"))]

\* the tc elements of a row that do not bear hMerge="1"
Unmerged(tcs) == SelectSeq(tcs, LAMBDA tc : getAttr(tc, "hMerge") # Text(<<"1">>))

\* C13: a tc bearing hMerge="1" is excluded from the cell list emitted for its
\* row: each row of the Table has as many cells as the row has un-merged tc
\* elements.
C13_MergedCellsExcluded ==
    tblOut # Pending =>
        /\ Len(tblOut.rows) = Len(SourceRows)
        /\ \A i \in DOMAIN tblOut.rows :
               Len(tblOut.rows[i].cells) = Len(Unmerged(SourceRows[i]))

\* C13 amended: a tc bearing hMerge="1" is kept in the cell list emitted for
\* its row, flagged hMerge, and is left out only when the row is rendered:
\* each row of the Table has one cell per tc element, the cell of a tc is
\* flagged exactly when the tc bears hMerge="1", and the cells rendered are as
\* many as the un-merged tc elements.
C13_MergedCellsFlagged ==
    tblOut # Pending =>
        /\ Len(tblOut.rows) = Len(SourceRows)
        /\ \A i \in DOMAIN tblOut.rows :
               /\ Len(tblOut.rows[i].cells) = Len(SourceRows[i])
               /\ \A k \in DOMAIN tblOut.rows[i].cells :
                      tblOut.rows[i].cells[k].hMerge
                          <=> getAttr(SourceRows[i][k], "hMerge") = Text(<<"1">>)
               /\ Len(RenderedCells(tblOut.rows[i])) = Len(Unmerged(SourceRows[i]))

\* a table was parsed whose first row is a cell spanning two grid columns and
\* the merged cell behind it
C13_Witness ==
    /\ tblOut # Pending
    /\ Len(SourceRows[1]) = 2
    /\ getAttr(SourceRows[1][1], "gridSpan") = Text(<<"2">>)
    /\ getAttr(SourceRows[1][2], "hMerge") = Text(<<"1">>)
    /\ Len(tblOut.rows[1].cells) = 2
    /\ tblOut.rows[1].cells[2].hMerge

(***************************************************************************)
(* AnimationParser: the nodes of a childTnLst                              *)
(*                                                                         *)
(* A node holds its type, its children (undefined for a leaf), and of its  *)
(* timing and target properties the duration, the begin and the targetId;  *)
(* a property the parser leaves out is undefined.  The properties of one   *)
(* kind only (to, by, path, ...) are not followed.                         *)
(***************************************************************************)
Node(type, children, timing, target) ==
    [t |-> "node", type |-> type, children |-> children,
     duration |-> timing.duration, begin |-> timing.begin, targetId |-> target.targetId]

NoTiming == [duration |-> Undefined, begin |-> Undefined]

NoTarget == [targetId |-> Undefined]

Indefinite == Text(<<"i", "n", "d", "e", "f", "i", "n", "i", "t", "e">>)

\* AnimationParser.parseDuration
parseDuration(dur) ==
    IF Falsy(dur) THEN Undefined
    ELSE IF dur = Indefinite THEN Indefinite
    ELSE parseInt(dur)

\* AnimationParser.parseCommonTimingProps
parseCommonTimingProps(cTn) ==
    LET cond == getChild(getChild(cTn, "stCondLst"), "cond")
    IN  IF Falsy(cTn) THEN NoTiming
        ELSE [duration |-> parseDuration(getAttr(cTn, "dur")),
              begin |-> IF Falsy(cond) THEN Undefined ELSE getAttr(cond, "delay")]

\* AnimationParser.parseTargetElement
parseTargetElement(tgtEl) ==
    LET spTgt == getChild(tgtEl, "spTgt")
        spId == getAttr(spTgt, "spid")
    IN  IF Falsy(tgtEl) \/ Falsy(spTgt) THEN NoTarget
        ELSE [targetId |-> IF Falsy(spId) THEN Undefined ELSE parseInt(spId)]

\* a node of a behaviour kind: { type, ...parseBehaviorProps(cBhvr) }
BehaviorNode(type, element) ==
    LET cBhvr == getChild(element, "cBhvr")
    IN  IF Falsy(cBhvr) THEN Node(type, Undefined, NoTiming, NoTarget)
        ELSE Node(type, Undefined, parseCommonTimingProps(getChild(cBhvr, "cTn")),
                  parseTargetElement(getChild(cBhvr, "tgtEl")))

\* parseAudioNode and parseVideoNode
MediaNode(type, element) ==
    LET cMediaNode == getChild(element, "cMediaNode")
    IN  Node(type, Undefined, parseCommonTimingProps(getChild(cMediaNode, "cTn")),
             parseTargetElement(getChild(cMediaNode, "tgtEl")))

\* the child kinds in the order parseChildTnLst drains them
KindOrder ==
    <<"seq", "par", "set", "anim", "animEffect", "animClr", "animMotion", "animRot",
      "animScale", "audio", "video">>

\* the node type each parse method gives
NodeTypeOf(kind) ==
    CASE kind = "seq" -> "sequence" [] kind = "par" -> "parallel" [] kind = "set" -> "set"
      [] kind = "anim" -> "animate" [] kind = "animEffect" -> "effect"
      [] kind = "animClr" -> "animateColor" [] kind = "animMotion" -> "animateMotion"
      [] kind = "animRot" -> "animateRotation" [] kind = "animScale" -> "animateScale"
      [] kind = "audio" -> "audio" [] kind = "video" -> "video"

RECURSIVE DrainKinds(_, _)

\* parseSequenceNode and parseParNode: null without a cTn
ContainerNode(type, element, kinds) ==
    LET cTn == getChild(element, "cTn")
        childTnLst == getChild(cTn, "childTnLst")
    IN  IF Falsy(cTn) THEN Null
        ELSE Node(type, Array(IF Falsy(childTnLst) THEN <<>> ELSE DrainKinds(childTnLst, kinds)),
                  parseCommonTimingProps(cTn), NoTarget)

\* the parse method of each kind
ParseNode(kind, element, kinds) ==
    IF kind \in {"seq", "par"} THEN ContainerNode(NodeTypeOf(kind), element, kinds)
    ELSE IF kind \in {"audio", "video"} THEN MediaNode(NodeTypeOf(kind), element)
    ELSE BehaviorNode(NodeTypeOf(kind), element)

\* one loop of parseChildTnLst: the nodes of the children of one kind
NodesOfKind(childTnLst, kind, kinds) ==
    LET elements == ensureArray(getChild(childTnLst, kind))
    IN  SelectSeq([i \in DOMAIN elements |-> ParseNode(kind, elements[i], kinds)],
                  LAMBDA node : node # Null)

\* the loops of parseChildTnLst, one kind after the other; a container node
\* drains its own childTnLst the same way
DrainKinds(childTnLst, kinds) ==
    LET RECURSIVE Loops(_)
        Loops(from) ==
            IF from > Len(kinds) THEN <<>>
            ELSE NodesOfKind(childTnLst, kinds[from], kinds) \o Loops(from + 1)
    IN  Loops(1)

\* mutant of parseChildTnLst: the set nodes are drained first
parseChildTnLstSetFirst(childTnLst) ==
    DrainKinds(childTnLst,
               <<"set", "seq", "par", "anim", "animEffect", "animClr", "animMotion", "animRot",
                 "animScale", "audio", "video">>)

\* AnimationParser.parseChildTnLst
parseChildTnLst(childTnLst) == DrainKinds(childTnLst, KindOrder)

(***************************************************************************)
(* parseChildTnLst on the child lists of a bounded set                     *)
(*                                                                         *)
(* The children are chosen in document order; the child at position n has  *)
(* dur="n" (and spid="n" where it has a target), so that the node built    *)
(* from it is known by its duration.                                       *)
(***************************************************************************)
MaxChildTn == 3

CTn(n, children) == Element({<<"dur", Text(Decimal(n))>>}, children)

TgtEl(n) == Element({}, {<<"spTgt", Element({<<"spid", Text(Decimal(n))>>}, {})>>})

BehaviorElement(n) ==
    Element({}, {<<"cBhvr", Element({}, {<<"cTn", CTn(n, {})>>, <<"tgtEl", TgtEl(n)>>})>>})

\* the childTnLst of the par that has children: an anim, then a set
InnerChildTnLst == Element({}, {<<"anim", BehaviorElement(8)>>, <<"set", BehaviorElement(9)>>})

\* the forms a child is written in: each kind, <p:seq/> without a cTn, and a
\* par whose cTn has a childTnLst
ChildForms == {KindOrder[i] : i \in DOMAIN KindOrder} \cup {"seq/", "par+"}

KindOfForm(form) == IF form = "seq/" THEN "seq" ELSE IF form = "par+" THEN "par" ELSE form

\* the child of the form given at position n
ChildElement(form, n) ==
    IF form = "seq/" THEN EmptyElement
    ELSE IF form = "par+" THEN Element({}, {<<"cTn", CTn(n, {<<"childTnLst", InnerChildTnLst>>})>>})
    ELSE IF form \in {"seq", "par"} THEN Element({}, {<<"cTn", CTn(n, {})>>})
    ELSE IF form \in {"audio", "video"}
    THEN Element({}, {<<"cMediaNode", Element({}, {<<"cTn", CTn(n, {})>>, <<"tgtEl", TgtEl(n)>>})>>})
    ELSE BehaviorElement(n)

\* the children in document order, each <<kind, element>>
ChildSources ==
    {[n \in DOMAIN forms |-> <<KindOfForm(forms[n]), ChildElement(forms[n], n)>>] :
         forms \in SeqsUpTo(ChildForms, MaxChildTn)}

\* the elements of one kind, in document order
ElementsOfKind(source, kind) ==
    LET ofKind == SelectSeq(source, LAMBDA child : child[1] = kind)
    IN  [i \in DOMAIN ofKind |-> ofKind[i][2]]

\* the childTnLst element the XML parser gives for the children: the children
\* of one name are one property, the element itself or the array of them
childTnLstOf(source) ==
    IF source = <<>> THEN EmptyElement
    ELSE Element({}, {<<source[n][1],
                        IF Len(ElementsOfKind(source, source[n][1])) = 1 THEN source[n][2]
                        ELSE Array(ElementsOfKind(source, source[n][1]))>> : n \in DOMAIN source})

InitChildTn ==
    /\ tnSource \in ChildSources
    /\ tnOut = Pending
    /\ OthersIdle("childTn")

\* one call of parseChildTnLst on the parsed childTnLst of the children chosen
ParseChildTnLst ==
    /\ tnOut = Pending
    /\ tnOut' = Array(parseChildTnLst(childTnLstOf(tnSource)))
    /\ UNCHANGED tnSource
    /\ UNCHANGED notChildTnVars

NextChildTn == ParseChildTnLst

SpecChildTn == InitChildTn /\ [][NextChildTn]_vars

\* the place of a kind in the order seq, par, set, anim, animEffect, animClr,
\* animMotion, animRot, animScale, audio, video
KindRank(kind) == CHOOSE i \in DOMAIN KindOrder : KindOrder[i] = kind

\* the document position of the child a node was built from
SourcePosition(node) == node.duration.n

\* C16: the children of a childTnLst are emitted kind by kind in the order
\* seq, par, set, anim, animEffect, animClr, animMotion, animRot, animScale,
\* audio, video: every node is the node of a child of the source, every child
\* that has content is emitted, and of two nodes the earlier one is of an
\* earlier kind, or of the same kind and earlier in the source.
C16_ChildrenEmittedKindByKind ==
    tnOut # Pending =>
        /\ \A i \in DOMAIN tnOut.items :
               /\ SourcePosition(tnOut.items[i]) \in DOMAIN tnSource
               /\ tnOut.items[i].type = NodeTypeOf(tnSource[SourcePosition(tnOut.items[i])][1])
        /\ \A n \in DOMAIN tnSource :
               tnSource[n][2] # EmptyElement =>
                   \E i \in DOMAIN tnOut.items : SourcePosition(tnOut.items[i]) = n
        /\ \A i, j \in DOMAIN tnOut.items :
               i < j =>
                   LET ki == KindRank(tnSource[SourcePosition(tnOut.items[i])][1])
                       kj == KindRank(tnSource[SourcePosition(tnOut.items[j])][1])
                   IN  \/ ki < kj
                       \/ ki = kj /\ SourcePosition(tnOut.items[i]) < SourcePosition(tnOut.items[j])

\* three children were emitted of a source that has a child of a later kind
\* between two children of one kind
C16_Witness ==
    /\ tnOut # Pending
    /\ Len(tnOut.items) = 3
    /\ tnSource[1][1] = tnSource[3][1]
    /\ KindRank(tnSource[2][1]) > KindRank(tnSource[1][1])
    /\ tnOut.items[1].type = tnOut.items[2].type

(***************************************************************************)
(* TimingController.buildTimeline                                          *)
(*                                                                         *)
(* A timeline item holds its start time, its duration, its node and its    *)
(* state; its id is the length of the timeline when it was added (the      *)
(* clock reading that the code appends to the id is left out).             *)
(***************************************************************************)
Max(a, b) == IF a >= b THEN a ELSE b

\* typeof node.duration === 'number' ? node.duration : 500
DurationOf(node) == IF node.duration.t = "number" THEN node.duration.n ELSE 500

\* typeof node.begin === 'string' ? parseInt(node.begin) || 0 : 0
DelayOf(node) ==
    IF node.begin.t = "string" /\ ~Falsy(parseInt(node.begin)) THEN parseInt(node.begin).n
    ELSE 0

\* TimingController.addToTimeline
addToTimeline(timeline, node, startTime, duration) ==
    Append(timeline,
           [id |-> Len(timeline), startTime |-> startTime, duration |-> duration,
            node |-> node, state |-> "pending"])

RECURSIVE StampSequence(_, _, _, _)
\* the loop over the children of a sequence node from child k on: the timeline
\* and seqOffset after it
StampSequence(timeline, children, k, seqOffset) ==
    IF k > Len(children) THEN [timeline |-> timeline, end |-> seqOffset]
    ELSE StampSequence(addToTimeline(timeline, children[k], seqOffset, DurationOf(children[k])),
                       children, k + 1, seqOffset + DurationOf(children[k]))

RECURSIVE StampParallel(_, _, _, _, _)
\* the loop over the children of a parallel node from child k on: the timeline
\* and parallelMaxEnd after it
StampParallel(timeline, children, k, startTime, parallelMaxEnd) ==
    IF k > Len(children) THEN [timeline |-> timeline, end |-> parallelMaxEnd]
    ELSE StampParallel(addToTimeline(timeline, children[k], startTime, DurationOf(children[k])),
                       children, k + 1, startTime,
                       Max(parallelMaxEnd, startTime + DurationOf(children[k])))

\* the body of the loop of processNodes for one node: the timeline and the end
\* time the node gives
ProcessNode(timeline, node, offset) ==
    LET startTime == offset + DelayOf(node)
    IN  IF node.type = "sequence" /\ node.children # Undefined
        THEN StampSequence(timeline, node.children.items, 1, startTime)
        ELSE IF node.type = "parallel" /\ node.children # Undefined
        THEN StampParallel(timeline, node.children.items, 1, startTime, startTime)
        ELSE [timeline |-> addToTimeline(timeline, node, startTime, DurationOf(node)),
              end |-> startTime + DurationOf(node)]

RECURSIVE ProcessNodesFrom(_, _, _, _, _)
\* the loop of processNodes from node k on
ProcessNodesFrom(timeline, nodes, k, offset, maxEndTime) ==
    IF k > Len(nodes) THEN [timeline |-> timeline, end |-> maxEndTime]
    ELSE ProcessNodesFrom(ProcessNode(timeline, nodes[k], offset).timeline, nodes, k + 1, offset,
                          Max(maxEndTime, ProcessNode(timeline, nodes[k], offset).end))

\* TimingController.processNodes: the timeline after it and the value returned
processNodes(timeline, nodes, offset) == ProcessNodesFrom(timeline, nodes, 1, offset, offset)

RECURSIVE ProcessSequenceList(_, _, _, _)
\* the loop of buildTimeline over timing.sequenceList from sequence k on
ProcessSequenceList(timeline, sequenceList, k, currentOffset) ==
    IF k > Len(sequenceList) THEN timeline
    ELSE ProcessSequenceList(processNodes(timeline, sequenceList[k].children, currentOffset).timeline,
                             sequenceList, k + 1,
                             processNodes(timeline, sequenceList[k].children, currentOffset).end)

\* where Array.prototype.sort puts an item among items already sorted: behind
\* every item that does not start later (the sort is stable)
InsertByStart(sorted, item) ==
    LET before == SelectSeq(sorted, LAMBDA other : other.startTime <= item.startTime)
        after == SelectSeq(sorted, LAMBDA other : other.startTime > item.startTime)
    IN  before \o <<item>> \o after

RECURSIVE SortByStart(_)
\* this.timeline.sort((a, b) => a.startTime - b.startTime)
SortByStart(timeline) ==
    IF timeline = <<>> THEN <<>>
    ELSE InsertByStart(SortByStart(Front(timeline)), Last(timeline))

\* mutant of buildTimeline: the timeline is left in the order of the walk
buildTimelineUnsorted(timing) ==
    IF timing.sequenceList = Undefined THEN <<>>
    ELSE ProcessSequenceList(<<>>, timing.sequenceList.items, 1, 0)

\* TimingController.buildTimeline: this.timeline after it
buildTimeline(timing) ==
    IF timing.sequenceList = Undefined THEN <<>>
    ELSE SortByStart(ProcessSequenceList(<<>>, timing.sequenceList.items, 1, 0))

(***************************************************************************)
(* buildTimeline on the timings of a bounded set                           *)
(*                                                                         *)
(* The nodes of a timing are told apart by their targetId: the n-th node   *)
(* of the list has 10 * n, its k-th child 10 * n + k.                      *)
(***************************************************************************)
MaxTimelineNodes == 2

\* the durations of a node: none (500 is taken) and 100
TimelineDurations == {Undefined, Num(100)}

\* the begin of a node: none and a delay of 200
TimelineBegins == {Undefined, Text(<<"2", "0", "0">>)}

\* what is chosen for a leaf: its duration and its begin
LeafShapes == [type : {"effect"}, duration : TimelineDurations, begin : TimelineBegins]

\* what is chosen for a sequence or parallel node: its begin and the durations
\* of its one or two children; the second child has a begin of its own
GroupShapes ==
    [type : {"sequence", "parallel"}, begin : TimelineBegins,
     kids : {<<Num(100)>>, <<Undefined, Num(100)>>, <<Num(100), Undefined>>}]

\* the node of a shape as the n-th node of the list
TimelineNode(shape, n) ==
    IF shape.type = "effect"
    THEN Node("effect", Undefined, [duration |-> shape.duration, begin |-> shape.begin],
              [targetId |-> Num(10 * n)])
    ELSE Node(shape.type,
              Array([k \in DOMAIN shape.kids |->
                         Node("effect", Undefined,
                              [duration |-> shape.kids[k],
                               begin |-> IF k = 1 THEN Undefined ELSE Text(<<"2", "0", "0">>)],
                              [targetId |-> Num(10 * n + k)])]),
              [duration |-> Undefined, begin |-> shape.begin], [targetId |-> Num(10 * n)])

TimelineNodeLists ==
    {[n \in DOMAIN shapes |-> TimelineNode(shapes[n], n)] :
         shapes \in SeqsUpTo(LeafShapes \cup GroupShapes, MaxTimelineNodes)}

\* a timing without a sequence list, the nodes in one sequence of the list, and
\* the first node in a sequence of its own
Timings ==
    {[t |-> "timing", sequenceList |-> Undefined]}
    \cup {[t |-> "timing", sequenceList |-> Array(<<[concurrent |-> TRUE, children |-> nodes]>>)] :
              nodes \in TimelineNodeLists}
    \cup {[t |-> "timing",
           sequenceList |-> Array(<<[concurrent |-> TRUE, children |-> <<Head(nodes)>>],
                                    [concurrent |-> TRUE, children |-> Tail(nodes)]>>)] :
              nodes \in TimelineNodeLists \ {<<>>}}

InitTimeline ==
    /\ tcTiming \in Timings
    /\ tcTimeline = <<>>
    /\ tcBuilt = FALSE
    /\ OthersIdle("timeline")

\* buildTimeline on the timing chosen
BuildTimeline ==
    /\ ~tcBuilt
    /\ tcTimeline' = buildTimeline(tcTiming)
    /\ tcBuilt' = TRUE
    /\ UNCHANGED tcTiming
    /\ UNCHANGED notTimelineVars

NextTimeline == BuildTimeline

SpecTimeline == InitTimeline /\ [][NextTimeline]_vars

\* the nodes of the sequence list, one after the other
TimingNodes ==
    IF tcTiming.sequenceList = Undefined THEN <<>>
    ELSE LET list == tcTiming.sequenceList.items
             RECURSIVE Nodes(_)
             Nodes(k) == IF k > Len(list) THEN <<>> ELSE list[k].children \o Nodes(k + 1)
         IN  Nodes(1)

\* the item of the timeline that holds the node given
ItemOf(node) == CHOOSE i \in DOMAIN tcTimeline : tcTimeline[i].node = node

HasItem(node) == \E i \in DOMAIN tcTimeline : tcTimeline[i].node = node

Background(fill) == [t |-> "background", fill |-> fill]

NewStyle == [t |-> "style", backgroundColor |-> Text(<<>>)]

\* background?.fill is falsy
NoFillIn(background) == background = Undefined \/ background.fill = Undefined

\* SlideRenderer.resolveColor of an rgb colour without alpha
resolveColor(color) ==
    IF color.type = "rgb" /\ Head(color.value.s) # "#" THEN Text(<<"#">> \o color.value.s)
    ELSE color.value

\* SlideRenderer.applyFill
applyFill(style, fill) ==
    IF fill.type = "none"
    THEN [style EXCEPT !.backgroundColor = Text(<<"t", "r", "a", "n", "s", "p", "a", "r", "e", "n", "t">>)]
    ELSE IF fill.type = "solid" THEN [style EXCEPT !.backgroundColor = resolveColor(fill.solid)]
    ELSE style

\* presentation.masters.flatMap(m => m.layouts)
RECURSIVE AllLayouts(_)
AllLayouts(masters) ==
    IF masters = <<>> THEN <<>> ELSE Head(masters).layouts \o AllLayouts(Tail(masters))

\* Array.prototype.find on the id
FindById(items, id) ==
    IF \E i \in DOMAIN items : items[i].id = id
    THEN items[CHOOSE i \in DOMAIN items : items[i].id = id /\ \A j \in 1..(i - 1) : items[j].id # id]
    ELSE Undefined

\* the background after the fall back to the one found, when the one held has
\* no fill
FallBack(background, found) ==
    IF NoFillIn(background) /\ found # Undefined /\ found.background # Undefined
    THEN found.background
    ELSE background

\* the end of renderBackground: white without a fill, else the fill applied
Paint(style, background) ==
    IF NoFillIn(background)
    THEN [style EXCEPT !.backgroundColor = Text(<<"#", "F", "F", "F", "F", "F", "F">>)]
    ELSE applyFill(style, background.fill)

\* mutant of renderBackground: the master is asked before the layout
renderBackgroundMasterFirst(presentation, style, slide) ==
    Paint(style,
          FallBack(FallBack(slide.background, FindById(presentation.masters, slide.masterId)),
                   FindById(AllLayouts(presentation.masters), slide.layoutId)))

\* SlideRenderer.renderBackground: the style of the slide element after it
renderBackground(presentation, style, slide) ==
    Paint(style,
          FallBack(FallBack(slide.background,
                            FindById(AllLayouts(presentation.masters), slide.layoutId)),
                   FindById(presentation.masters, slide.masterId)))

(***************************************************************************)
(* renderBackground on the presentations of a bounded set                  *)
(***************************************************************************)
\* the backgrounds of one level: none, one without a fill, one with the fill
\* 'none', one with a solid fill of the colour of the level
BackgroundsIn(colour) ==
    {Undefined, Background(Undefined), Background(NoneFill), Background(SolidFill(Rgb(colour)))}

SlideColour == <<"#", "F", "F", "0", "0", "0", "0">>

LayoutColour == <<"#", "0", "0", "F", "F", "0", "0">>

MasterColour == <<"#", "0", "0", "0", "0", "F", "F">>

OtherColour == <<"#", "F", "F", "F", "F", "0", "0">>

\* two masters with one layout each; the backgrounds of the first master and
\* of its layout are chosen
PresentationWith(masterBackground, layoutBackground) ==
    [t |-> "presentation",
     masters |-> <<[id |-> "M1", background |-> masterBackground,
                    layouts |-> <<[id |-> "L1", background |-> layoutBackground]>>],
                   [id |-> "M2", background |-> Background(SolidFill(Rgb(OtherColour))),
                    layouts |-> <<[id |-> "L2", background |-> Undefined]>>]>>]

Presentations ==
    {PresentationWith(mb, lb) : mb \in BackgroundsIn(MasterColour), lb \in BackgroundsIn(LayoutColour)}

\* a slide with its layout and master, with a layout of the other master, or
\* with a layout or master that is not in the presentation
RenderedSlides ==
    [t : {"slide"}, layoutId : {"L1", "L2", ""}, masterId : {"M1", "M2", ""},
     background : BackgroundsIn(SlideColour)]

InitBackground ==
    /\ srPresentation \in Presentations
    /\ srSlide \in RenderedSlides
    /\ srStyle = Pending
    /\ OthersIdle("background")

\* renderBackground on the new element of the slide chosen
RenderBackground ==
    /\ srStyle = Pending
    /\ srStyle' = renderBackground(srPresentation, NewStyle, srSlide)
    /\ UNCHANGED <<srPresentation, srSlide>>
    /\ UNCHANGED notBackgroundVars

NextBackground == RenderBackground

SpecBackground == InitBackground /\ [][NextBackground]_vars

\* the backgrounds of the slide, of its layout and of its master, in this
\* order; undefined where there is none
Levels ==
    LET layout == FindById(AllLayouts(srPresentation.masters), srSlide.layoutId)
        master == FindById(srPresentation.masters, srSlide.masterId)
    IN  <<srSlide.background,
          IF layout = Undefined THEN Undefined ELSE layout.background,
          IF master = Undefined THEN Undefined ELSE master.background>>

\* the levels that have a background fill
Filled == {n \in DOMAIN Levels : ~NoFillIn(Levels[n])}

\* C18: the effective background of a slide is the first non-empty one of the
\* slide, its layout and its master, in this order: the element is painted
\* with the fill of the first level that has one, never with the fill of a
\* later level, and white when no level has a fill.
C18_BackgroundFallsBackInOrder ==
    srStyle # Pending =>
        IF Filled = {}
        THEN srStyle.backgroundColor = Text(<<"#", "F", "F", "F", "F", "F", "F">>)
        ELSE \E n \in Filled :
                 /\ \A k \in Filled : n <= k
                 /\ srStyle = applyFill(NewStyle, Levels[n].fill)

\* the slide has no background fill, its layout one without a fill, and the
\* colour of its master was painted although another master has a fill too
C18_Witness ==
    /\ srStyle # Pending
    /\ srSlide.background = Background(Undefined)
    /\ srSlide.layoutId = "L1"
    /\ srSlide.masterId = "M1"
    /\ Levels[2] = Background(Undefined)
    /\ srStyle.backgroundColor = Text(MasterColour)

(***************************************************************************)
(* ShapeParser.parseXfrm and the transform of parseGroupShape              *)
(***************************************************************************)
Zero == Text(<<"0">>)

\* the Transform of a missing xfrm: offset and extents only
ZeroTransform ==
    [t |-> "transform", offset |-> [x |-> Num(0), y |-> Num(0)],
     extents |-> [width |-> Num(0), height |-> Num(0)],
     rotation |-> Undefined, flipH |-> Undefined, flipV |-> Undefined]

\* ShapeParser.parseXfrm
parseXfrm(xfrm) ==
    LET off == getChild(xfrm, "off")
        ext == getChild(xfrm, "ext")
    IN  IF Falsy(xfrm) THEN ZeroTransform
        ELSE [t |-> "transform",
              offset |-> [x |-> parseInt(OrElse(getAttr(off, "x"), Zero)),
                          y |-> parseInt(OrElse(getAttr(off, "y"), Zero))],
              extents |-> [width |-> parseInt(OrElse(getAttr(ext, "cx"), Zero)),
                           height |-> parseInt(OrElse(getAttr(ext, "cy"), Zero))],
              rotation |-> parseAngle(getAttr(xfrm, "rot")),
              flipH |-> parseBoolean(getAttr(xfrm, "flipH")),
              flipV |-> parseBoolean(getAttr(xfrm, "flipV"))]

\* ShapeParser.parseTransform
parseTransform(spPr) == parseXfrm(getChild(spPr, "xfrm"))

\* a || b || '0' of parseGroupShape: the dotted attribute of the xfrm, then the
\* attribute of its child
DottedOrChild(xfrm, dotted, child, name) ==
    parseInt(OrElse(getAttr(xfrm, dotted), OrElse(getAttr(getChild(xfrm, child), name), Zero)))

\* ShapeParser.parseGroupShape: the transform and the child transform of the
\* group (its base properties and its children are not followed)
parseGroupShape(grpSp) ==
    LET xfrm == getChild(getChild(grpSp, "grpSpPr"), "xfrm")
        childXfrm == getChild(xfrm, "chOff")
        childExt == getChild(xfrm, "chExt")
    IN  IF Falsy(grpSp) THEN Null
        ELSE [t |-> "group", type |-> "group",
              transform |->
                  [t |-> "transform",
                   offset |-> [x |-> DottedOrChild(xfrm, "off.x", "off", "x"),
                               y |-> DottedOrChild(xfrm, "off.y", "off", "y")],
                   extents |-> [width |-> DottedOrChild(xfrm, "ext.cx", "ext", "cx"),
                                height |-> DottedOrChild(xfrm, "ext.cy", "ext", "cy")],
                   rotation |-> parseAngle(getAttr(xfrm, "rot")),
                   flipH |-> parseBoolean(getAttr(xfrm, "flipH")),
                   flipV |-> parseBoolean(getAttr(xfrm, "flipV"))],
              childTransform |->
                  [t |-> "transform",
                   offset |-> [x |-> parseInt(OrElse(getAttr(childXfrm, "x"), Zero)),
                               y |-> parseInt(OrElse(getAttr(childXfrm, "y"), Zero))],
                   extents |-> [width |-> parseInt(OrElse(getAttr(childExt, "cx"), Zero)),
                                height |-> parseInt(OrElse(getAttr(childExt, "cy"), Zero))]]]

(***************************************************************************)
(* parseXfrm and parseGroupShape on the elements of a bounded set          *)
(***************************************************************************)
\* the cx and cy written: zero, a length, a negative length and no number
ExtentTexts == {Zero, Text(Decimal(914400)), Text(Decimal(0 - 914400)), Text(<<"a", "b", "c">>)}

\* no ext child, or an ext with each cx and cy
ExtChildren ==
    {{}} \cup {{<<"ext", Element({<<"cx", cx>>, <<"cy", cy>>}, {})>>} : cx \in ExtentTexts, cy \in ExtentTexts}

\* no off child, or one off child
OffChildren ==
    {{}, {<<"off", Element({<<"x", Text(Decimal(457200))>>, <<"y", Text(Decimal(0 - 457200))>>}, {})>>}}

\* no attribute, a rotation, a flip
XfrmAttrs ==
    {{}, {<<"rot", Text(Decimal(5400000))>>}, {<<"flipH", Text(<<"1">>)>>}}

\* no xfrm, <a:xfrm/>, and the xfrm elements with content
Xfrms ==
    {Undefined, EmptyElement}
    \cup ({Element(attrs, off \cup ext) :
               attrs \in XfrmAttrs, off \in OffChildren, ext \in ExtChildren}
          \ {Element({}, {})})

\* a group shape with the xfrm given in its grpSpPr
GroupShapeWith(xfrm) ==
    Element({}, {<<"nvGrpSpPr", Element({}, {<<"cNvPr", Element({<<"id", Text(<<"4">>)>>}, {})>>})>>,
                 <<"grpSpPr", IF xfrm = Undefined THEN EmptyElement
                              ELSE Element({}, {<<"xfrm", xfrm>>})>>})

InitXfrm ==
    /\ \E xfrm \in Xfrms :
           \/ xfCall = "parseXfrm" /\ xfNode = xfrm
           \/ xfCall = "parseGroupShape" /\ xfNode = GroupShapeWith(xfrm)
    /\ xfOut = Pending
    /\ OthersIdle("xfrm")

\* one call of parseXfrm on the xfrm chosen
ParseXfrm ==
    /\ xfCall = "parseXfrm"
    /\ xfOut = Pending
    /\ xfOut' = parseXfrm(xfNode)
    /\ UNCHANGED <<xfCall, xfNode>>
    /\ UNCHANGED notXfrmVars

\* one call of parseGroupShape on the group shape chosen
ParseGroupShape ==
    /\ xfCall = "parseGroupShape"
    /\ xfOut = Pending
    /\ xfOut' = parseGroupShape(xfNode)
    /\ UNCHANGED <<xfCall, xfNode>>
    /\ UNCHANGED notXfrmVars

NextXfrm == ParseXfrm \/ ParseGroupShape

SpecXfrm == InitXfrm /\ [][NextXfrm]_vars

\* the xfrm of the source, undefined when it has none
SourceXfrm ==
    IF xfCall = "parseXfrm" THEN xfNode ELSE getChild(getChild(xfNode, "grpSpPr"), "xfrm")

\* the Transform the element returned carries
TransformOf(out) == IF out.t = "group" THEN out.transform ELSE out

\* C19: every element emitted carries a Transform whose extent components are
\* >= 0, and the element of a source without an xfrm carries the zero
\* transform, never a missing one.
C19_ExtentsNonNegative ==
    xfOut # Pending =>
        /\ TransformOf(xfOut).t = "transform"
        /\ TransformOf(xfOut).extents.width.t = "number"
        /\ TransformOf(xfOut).extents.width.n >= 0
        /\ TransformOf(xfOut).extents.height.t = "number"
        /\ TransformOf(xfOut).extents.height.n >= 0
        /\ SourceXfrm = Undefined =>
               /\ TransformOf(xfOut).offset = [x |-> Num(0), y |-> Num(0)]
               /\ TransformOf(xfOut).extents = [width |-> Num(0), height |-> Num(0)]

(***************************************************************************)
(* TextParser.parseParagraphProperties and parseBullet                     *)
(*                                                                         *)
(* The tab stops and the default run properties of a paragraph are not     *)
(* followed.  TextParser holds no list of warnings: the warnings of a      *)
(* parse are those of PPTXParser, which parseParagraphProperties cannot    *)
(* reach.                                                                  *)
(***************************************************************************)
\* TextParser.parseSpacing
parseSpacing(spacing) ==
    LET spcPts == getChild(spacing, "spcPts")
        spcPct == getChild(spacing, "spcPct")
    IN  IF Falsy(spacing) THEN Undefined
        ELSE IF ~Falsy(spcPts) THEN parseInt(OrElse(getAttr(spcPts, "val"), Zero))
        ELSE IF ~Falsy(spcPct)
        THEN [percentage |-> Quotient(parseInt(OrElse(getAttr(spcPct, "val"), Text(Decimal(100000)))), 1000)]
        ELSE Undefined

\* TextParser.parseBulletFont
parseBulletFont(pPr) ==
    LET buFont == getChild(pPr, "buFont")
    IN  IF Falsy(buFont) THEN Undefined
        ELSE [typeface |-> getAttr(buFont, "typeface"),
              pitchFamily |-> parseInt(OrElse(getAttr(buFont, "pitchFamily"), Zero)),
              charset |-> parseInt(OrElse(getAttr(buFont, "charset"), Zero))]

\* TextParser.parseBulletColor
parseBulletColor(pPr) ==
    IF Falsy(getChild(pPr, "buClr")) THEN Undefined ELSE parseColor(getChild(pPr, "buClr"))

\* TextParser.parseBulletSize
parseBulletSize(pPr) ==
    LET buSzPts == getChild(pPr, "buSzPts")
        buSzPct == getChild(pPr, "buSzPct")
    IN  IF ~Falsy(buSzPts) THEN parseInt(OrElse(getAttr(buSzPts, "val"), Zero))
        ELSE IF ~Falsy(buSzPct)
        THEN [percentage |-> Quotient(parseInt(OrElse(getAttr(buSzPct, "val"), Text(Decimal(100000)))), 1000)]
        ELSE Undefined

\* the bullets parseBullet builds
NoneBullet == [t |-> "bullet", type |-> "none"]

\* the bullet of the first bullet element found, by the parse of each kind
\* (the default character U+2022 is written "bullet")
BulletOfKind(pPr) ==
    LET buAutoNum == getChild(pPr, "buAutoNum")
        buChar == getChild(pPr, "buChar")
        buBlip == getChild(pPr, "buBlip")
        blip == getChild(buBlip, "blip")
    IN  IF ~Falsy(getChild(pPr, "buNone")) THEN NoneBullet
        ELSE IF ~Falsy(buAutoNum)
        THEN [t |-> "bullet", type |-> "auto",
              startAt |-> parseInt(OrElse(getAttr(buAutoNum, "startAt"), Text(<<"1">>)))]
        ELSE IF ~Falsy(buChar)
        THEN [t |-> "bullet", type |-> "char",
              char |-> OrElse(getAttr(buChar, "char"), Text(<<"bullet">>)),
              font |-> parseBulletFont(pPr), color |-> parseBulletColor(pPr),
              size |-> parseBulletSize(pPr)]
        ELSE IF ~Falsy(buBlip)
        THEN [t |-> "bullet", type |-> "picture", pictureId |-> getAttr(blip, "embed")]
        ELSE Undefined

\* mutant of parseBullet: a bullet of type 'none' where no bullet element is found
parseBulletDefaultNone(pPr) ==
    IF Falsy(pPr) THEN Undefined
    ELSE IF BulletOfKind(pPr) = Undefined THEN NoneBullet
    ELSE BulletOfKind(pPr)

\* TextParser.parseBullet
parseBullet(pPr) ==
    IF Falsy(pPr) THEN Undefined ELSE BulletOfKind(pPr)

\* TextParser.parseParagraphProperties
parseParagraphProperties(pPr) ==
    IF Falsy(pPr) THEN Undefined
    ELSE [t |-> "paragraphProperties",
          alignment |-> getAttr(pPr, "algn"),
          level |-> parseInt(OrElse(getAttr(pPr, "lvl"), Zero)),
          indent |-> parseInt(OrElse(getAttr(pPr, "indent"), Zero)),
          marginLeft |-> parseInt(OrElse(getAttr(pPr, "marL"), Zero)),
          marginRight |-> parseInt(OrElse(getAttr(pPr, "marR"), Zero)),
          spaceBefore |-> parseSpacing(getChild(pPr, "spcBef")),
          spaceAfter |-> parseSpacing(getChild(pPr, "spcAft")),
          lineSpacing |-> parseSpacing(getChild(pPr, "lnSpc")),
          bullet |-> parseBullet(pPr)]

(***************************************************************************)
(* parseParagraphProperties on the pPr elements of a bounded set           *)
(***************************************************************************)
\* the attributes of a pPr: none, an alignment, the level and hanging indent
\* of a list paragraph
ParagraphAttrs ==
    {{}, {<<"algn", Text(<<"c", "t", "r">>)>>},
     {<<"lvl", Text(<<"1">>)>>, <<"marL", Text(Decimal(342900))>>,
      <<"indent", Text(Decimal(0 - 342900))>>}}

BulletElementNames == {"buNone", "buAutoNum", "buChar", "buBlip"}

\* the bullet element of a pPr: none, <a:buNone/>, and one of each other kind
BulletElements ==
    {{}, {<<"buNone", EmptyElement>>},
     {<<"buAutoNum", Element({<<"type", Text(<<"a", "r", "a", "b", "i", "c">>)>>,
                              <<"startAt", Text(<<"3">>)>>}, {})>>},
     {<<"buChar", Element({<<"char", Text(<<"-">>)>>}, {})>>},
     {<<"buBlip", Element({}, {<<"blip", Element({<<"embed", Text(<<"r", "I", "d", "3">>)>>}, {})>>})>>}}

\* what else a pPr holds: nothing, a bullet font, colour or size, a spacing
ParagraphExtras ==
    {{}, {<<"buFont", Element({<<"typeface", Text(<<"A", "r", "i", "a", "l">>)>>}, {})>>},
     {<<"buClr", Element({}, {<<"srgbClr", SrgbClr(Red)>>})>>},
     {<<"buSzPct", Element({<<"val", Text(Decimal(100000))>>}, {})>>},
     {<<"spcBef", Element({}, {<<"spcPts", Element({<<"val", Text(Decimal(600))>>}, {})>>})>>}}

\* no pPr, <a:pPr/>, and the pPr elements with content
ParagraphPropertyElements ==
    {Undefined, EmptyElement}
    \cup ({Element(attrs, bullet \cup extra) :
               attrs \in ParagraphAttrs, bullet \in BulletElements, extra \in ParagraphExtras}
          \ {Element({}, {})})

InitBullet ==
    /\ buPPr \in ParagraphPropertyElements
    /\ buOut = Pending
    /\ buWarnings = <<>>
    /\ OthersIdle("bullet")

\* one call of parseParagraphProperties on the pPr chosen; it records no warning
ParseParagraphProperties ==
    /\ buOut = Pending
    /\ buOut' = parseParagraphProperties(buPPr)
    /\ UNCHANGED <<buPPr, buWarnings>>
    /\ UNCHANGED notBulletVars

NextBullet == ParseParagraphProperties

SpecBullet == InitBullet /\ [][NextBullet]_vars

\* the paragraph has properties, and no bullet element among them
NoBulletElement ==
    /\ buPPr # Undefined
    /\ \A name \in BulletElementNames : ~Present(buPPr, name)

\* C20 as stated: when the paragraph properties carry no bullet element the
\* bullet type of the paragraph is 'none', and no warning is recorded.
C20_BulletDefaultsToNone ==
    (buOut # Pending /\ NoBulletElement) =>
        /\ buOut # Undefined
        /\ buOut.bullet = NoneBullet
        /\ buWarnings = <<>>

\* C20 amended: when the paragraph properties carry no bullet element the
\* paragraph has no bullet at all (the bullet of its properties is undefined,
\* no type is set), and no warning is recorded.
C20_BulletLeftUndefined ==
    (buOut # Pending /\ NoBulletElement) =>
        /\ buOut # Undefined => buOut.bullet = Undefined
        /\ buWarnings = <<>>

\* the properties of a list paragraph without a bullet element were returned
C20_Witness ==
    /\ buOut # Pending
    /\ NoBulletElement
    /\ buOut # Undefined
    /\ buOut.level = Num(1)
    /\ buOut.bullet = Undefined

(***************************************************************************)
(* AnimationController: stepping through the steps of a slide              *)
(*                                                                         *)
(* A controller holds currentSlide, currentStep, steps and isAnimating.    *)
(* The slides of its presentation are numbered from 0; a slide is the      *)
(* record buildSteps reads.  What reset and playStep do to the style of    *)
(* the elements is left out.                                               *)
(***************************************************************************)
\* the fields of a controller after its constructor
NewController == [currentSlide |-> 0, currentStep |-> 0, steps |-> <<>>, isAnimating |-> FALSE]

\* this.presentation.slides[index]
SlideAt(slides, index) ==
    IF index \in 0..(Len(slides) - 1) THEN slides[index + 1] ELSE Undefined

\* AnimationController.reset: the controller afterwards
resetSteps(ac, slides) ==
    LET slide == SlideAt(slides, ac.currentSlide)
    IN  [ac EXCEPT !.currentStep = 0,
                   !.steps = IF slide # Undefined THEN buildSteps(slide) ELSE @]

\* AnimationController.setSlide: the controller afterwards
setSlide(ac, slides, slideIndex) ==
    resetSteps([ac EXCEPT !.currentSlide = slideIndex], slides)

\* !slide?.timing?.sequenceList
NoSequenceList(slide) == slide = Undefined \/ ~slide.hasTiming \/ ~slide.hasSequenceList

\* AnimationController.getStepCount: the controller afterwards
BuiltFor(ac, slides, slideIndex) ==
    IF NoSequenceList(SlideAt(slides, slideIndex)) THEN ac
    ELSE [ac EXCEPT !.steps = buildSteps(SlideAt(slides, slideIndex))]

\* AnimationController.getStepCount: the number returned
getStepCount(ac, slides, slideIndex) ==
    IF NoSequenceList(SlideAt(slides, slideIndex)) THEN 0
    ELSE Len(BuiltFor(ac, slides, slideIndex).steps)

\* AnimationController.next returns false before it plays anything
NextRefused(ac) == ac.currentStep >= Len(ac.steps) \/ ac.isAnimating

\* AnimationController.next up to its await: the controller and the step given
\* to playStep
StartStep(ac) == [ac EXCEPT !.isAnimating = TRUE]

StepToPlay(ac) == ac.steps[ac.currentStep + 1]

\* AnimationController.next after its await
FinishStep(ac) == [ac EXCEPT !.currentStep = @ + 1, !.isAnimating = FALSE]

\* a slide whose timing is one sequence of effects on the shapes named
StepSlide(targetIds) ==
    SlideWith(<<[children |-> [k \in 1..Len(targetIds) |-> Leaf("effect", Num(targetIds[k]))]]>>)

NoTimingSlide == [hasTiming |-> FALSE, hasSequenceList |-> FALSE, sequenceList |-> <<>>]

\* bound of the presentations given to a controller
MaxControllerSlides == 2

\* the slides tried: without timing, with one step, with two steps
ControllerSlideKinds == {NoTimingSlide, StepSlide(<<11>>), StepSlide(<<21, 22>>)}

InitController ==
    /\ ctlSlides \in SeqsUpTo(ControllerSlideKinds, MaxControllerSlides)
    /\ ctl = NewController
    /\ ctlCalls = <<>>
    /\ OthersIdle("controller")

\* next() up to its first await: it returns false at once, or it is left
\* waiting for playStep
ControllerNext ==
    /\ IF NextRefused(ctl) THEN UNCHANGED <<ctl, ctlCalls>>
       ELSE /\ ctl' = StartStep(ctl)
            /\ ctlCalls' = Append(ctlCalls, StepToPlay(ctl))
    /\ UNCHANGED ctlSlides
    /\ UNCHANGED notControllerVars

\* the step of a next() call has played: the call goes on after its await
ControllerStepPlayed ==
    /\ ctlCalls # <<>>
    /\ ctl' = FinishStep(ctl)
    /\ ctlCalls' = Tail(ctlCalls)
    /\ UNCHANGED ctlSlides
    /\ UNCHANGED notControllerVars

ControllerReset ==
    /\ ctl' = resetSteps(ctl, ctlSlides)
    /\ UNCHANGED <<ctlSlides, ctlCalls>>
    /\ UNCHANGED notControllerVars

\* setSlide with an index of the presentation, or one past its end
ControllerSetSlide ==
    /\ \E slideIndex \in 0..Len(ctlSlides) : ctl' = setSlide(ctl, ctlSlides, slideIndex)
    /\ UNCHANGED <<ctlSlides, ctlCalls>>
    /\ UNCHANGED notControllerVars

NextController ==
    \/ ControllerNext
    \/ ControllerStepPlayed
    \/ ControllerReset
    \/ ControllerSetSlide

SpecController == InitController /\ [][NextController]_vars

\* C26: for any interleaving of next(), reset() and setSlide(), a reset() or
\* setSlide() made while a step started by next() is still playing included,
\* getCurrentStep() never exceeds getTotalSteps()
C26_CurrentStepWithinTotal == ctl.currentStep <= Len(ctl.steps)

(***************************************************************************)
(* PPTRenderer: navigation between slides and animation steps              *)
(*                                                                         *)
(* The renderer is the record w of its fields: inited (init has set        *)
(* presentation and slideRenderer), state, loaded (loadedSlides),          *)
(* controller (animationController, or null), dom (the SlideRenderer:      *)
(* the elements in its container, currentSlideElement, preloadedSlides),   *)
(* calls (the calls suspended at an await) and done (the public call that  *)
(* returned last).  A suspended call is a frame: the public method called, *)
(* the await it is suspended at (pc), the locals index, previousIndex and  *)
(* slideElement, the state at the time of the call (at) and the step it    *)
(* gave to playStep (played).  A slide element is known by the index of    *)
(* its slide and a number telling elements of one slide apart.             *)
(***************************************************************************)
\* this.state after construction
NewRendererState ==
    [currentSlide |-> 0, totalSlides |-> 0, animationStep |-> 0, totalAnimationSteps |-> 0]

\* a SlideRenderer after its constructor, with an empty container
NewSlideRenderer == [container |-> {}, currentSlideElement |-> Null, preloadedSlides |-> {}]

\* the frame of a call of the method op made in the state given
RendererCall(op, state) ==
    [op |-> op, pc |-> "", index |-> 0, previousIndex |-> 0, slideElement |-> Null,
     at |-> state, played |-> Undefined]

\* the call is left waiting at the await pc
Suspend(w, frame, pc) == [w EXCEPT !.calls = Append(@, [frame EXCEPT !.pc = pc])]

\* the public call returns
Returned(w, frame) ==
    [w EXCEPT !.done = [op |-> frame.op, at |-> frame.at, played |-> frame.played,
                        after |-> w.state]]

\* goToSlide: the bounds check
Clamp(index, totalSlides) ==
    IF (IF index < 0 THEN 0 ELSE index) >= totalSlides THEN totalSlides - 1
    ELSE IF index < 0 THEN 0 ELSE index

\* the entries of preloadedSlides for a slide
Preloaded(dom, index) == {entry \in dom.preloadedSlides : entry[1] = index}

\* this.preloadedSlides.get(index), for a slide that has an entry
PreloadedGet(dom, index) == (CHOOSE entry \in Preloaded(dom, index) : TRUE)[2]

\* the slide elements some field or local refers to
LiveElements(w) ==
    (w.dom.container \cup {w.dom.currentSlideElement}
        \cup {entry[2] : entry \in w.dom.preloadedSlides}
        \cup {w.calls[c].slideElement : c \in 1..Len(w.calls)}) \ {Null}

\* createSlideElement: a new element for the slide
NewSlideElement(w, index) ==
    [t |-> "div", slide |-> index,
     n |-> CHOOSE n \in 0..Cardinality(LiveElements(w)) :
               /\ [t |-> "div", slide |-> index, n |-> n] \notin LiveElements(w)
               /\ \A k \in 0..(n - 1) : [t |-> "div", slide |-> index, n |-> k] \in LiveElements(w)]

\* SlideRenderer.preloadSlide up to its await
preloadSlide(w, index) ==
    IF Preloaded(w.dom, index) # {} \/ SlideAt(rdSlides, index) = Undefined THEN w
    ELSE Suspend(w, [RendererCall("preloadSlide", NewRendererState) EXCEPT !.index = index],
                 "preloadSlide")

\* preloadSlide after its await
PreloadedSet(w, frame) ==
    [w EXCEPT !.dom.preloadedSlides =
        (@ \ Preloaded(w.dom, frame.index)) \cup {<<frame.index, NewSlideElement(w, frame.index)>>}]

\* goToSlide: one round of the preload loop
PreloadPair(w, index, i) ==
    IF index - i >= 0
    THEN preloadSlide(IF index + i < w.state.totalSlides THEN preloadSlide(w, index + i) ELSE w,
                      index - i)
    ELSE IF index + i < w.state.totalSlides THEN preloadSlide(w, index + i) ELSE w

RECURSIVE PreloadAround(_, _, _)
\* goToSlide: the preload loop from round i
PreloadAround(w, index, i) ==
    IF i > rdOptions.lazyLoad THEN w
    ELSE PreloadAround(PreloadPair(w, index, i), index, i + 1)

\* goToSlide: preload adjacent slides (lazyLoad 0 is the option switched off)
PreloadAdjacent(w, index) ==
    IF rdOptions.lazyLoad = 0 THEN w ELSE PreloadAround(w, index, 1)

\* goToSlide: reset animation state
ResetAnimation(w, index) ==
    IF w.controller = Null THEN w
    ELSE [w EXCEPT !.controller = BuiltFor(resetSteps(@, rdSlides), rdSlides, index),
                   !.state = [@ EXCEPT !.animationStep = 0,
                                       !.totalAnimationSteps =
                                           getStepCount(w.controller, rdSlides, index)]]

\* goToSlide after await renderSlide, to its return
AfterRender(w, frame) ==
    Returned(ResetAnimation(PreloadAdjacent([w EXCEPT !.loaded = @ \cup {frame.index}],
                                            frame.index),
                            frame.index),
             frame)

\* renderSlide after the transition or the replacement of the slide
Shown(w, frame) ==
    [w EXCEPT !.dom.currentSlideElement = frame.slideElement,
              !.dom.preloadedSlides = @ \ Preloaded(w.dom, frame.index)]

\* renderSlide without transition: simply replace the slide
Replaced(w, frame) ==
    [w EXCEPT !.dom.container = (@ \ {w.dom.currentSlideElement}) \cup {frame.slideElement}]

\* animateTransition after await playTransition: remove old slide
OldRemoved(w) == [w EXCEPT !.dom.container = @ \ {w.dom.currentSlideElement}]

\* renderSlide from "Handle transition" on; resumed tells whether renderSlide
\* was suspended before (goToSlide then goes on with it), or has not awaited
\* yet (goToSlide is left waiting for the promise returned)
Show(w, frame, resumed) ==
    IF rdOptions.enableTransitions
    THEN Suspend([w EXCEPT !.dom.container = @ \cup {frame.slideElement}], frame, "playTransition")
    ELSE IF resumed THEN AfterRender(Shown(Replaced(w, frame), frame), frame)
    ELSE Suspend(Shown(Replaced(w, frame), frame), frame, "renderSlide")

\* SlideRenderer.renderSlide up to its first await
renderSlide(w, frame) ==
    IF SlideAt(rdSlides, frame.index) = Undefined THEN Suspend(w, frame, "renderSlide")
    ELSE IF Preloaded(w.dom, frame.index) # {}
    THEN Show(w, [frame EXCEPT !.slideElement = PreloadedGet(w.dom, frame.index)], FALSE)
    ELSE Suspend(w, frame, "createSlideElement")

\* PPTRenderer.goToSlide up to its first await
goToSlide(w, frame, index) ==
    IF ~w.inited THEN Returned(w, frame)
    ELSE IF /\ Clamp(index, w.state.totalSlides) = w.state.currentSlide
            /\ Clamp(index, w.state.totalSlides) \in w.loaded
    THEN Returned(w, frame)
    ELSE renderSlide([w EXCEPT !.state.currentSlide = Clamp(index, w.state.totalSlides)],
                     [frame EXCEPT !.index = Clamp(index, w.state.totalSlides),
                                   !.previousIndex = w.state.currentSlide])

\* PPTRenderer.init up to its first await
init(w, frame) ==
    goToSlide([w EXCEPT !.inited = TRUE,
                        !.state.totalSlides = Len(rdSlides),
                        !.dom = NewSlideRenderer,
                        !.controller = IF rdOptions.enableAnimations THEN NewController
                                       ELSE Null],
              frame, rdOptions.initialSlide)

\* PPTRenderer.next up to its first await
next(w, frame) ==
    IF w.controller # Null /\ w.state.animationStep < w.state.totalAnimationSteps
    THEN IF NextRefused(w.controller) THEN Suspend(w, frame, "next")
         ELSE Suspend([w EXCEPT !.controller = StartStep(@)],
                      [frame EXCEPT !.played = StepToPlay(w.controller)], "playStep")
    ELSE IF w.state.currentSlide < w.state.totalSlides - 1
    THEN goToSlide(w, frame, w.state.currentSlide + 1)
    ELSE IF rdOptions.loop THEN goToSlide(w, frame, 0)
    ELSE Returned(w, frame)

\* PPTRenderer.next after await this.animationController.next()
StepCounted(w, frame) == Returned([w EXCEPT !.state.animationStep = @ + 1], frame)

\* PPTRenderer.previous up to its first await
previous(w, frame) ==
    IF w.state.animationStep > 0
    THEN goToSlide([w EXCEPT !.controller = IF @ = Null THEN @ ELSE resetSteps(@, rdSlides),
                             !.state.animationStep = 0],
                   frame, w.state.currentSlide)
    ELSE IF w.state.currentSlide > 0 THEN goToSlide(w, frame, w.state.currentSlide - 1)
    ELSE IF rdOptions.loop THEN goToSlide(w, frame, w.state.totalSlides - 1)
    ELSE Returned(w, frame)

\* the renderer of the current state
World ==
    [inited |-> rdInited, state |-> rdState, loaded |-> rdLoaded, controller |-> rdController,
     dom |-> rdDom, calls |-> rdCalls, done |-> rdDone]

\* the renderer of the current state without the frame at position c
Without(c) ==
    [World EXCEPT !.calls = SubSeq(rdCalls, 1, c - 1) \o SubSeq(rdCalls, c + 1, Len(rdCalls))]

\* the renderer becomes w
Becomes(w) ==
    /\ rdInited' = w.inited
    /\ rdState' = w.state
    /\ rdLoaded' = w.loaded
    /\ rdController' = w.controller
    /\ rdDom' = w.dom
    /\ rdCalls' = w.calls
    /\ rdDone' = w.done
    /\ UNCHANGED <<rdOptions, rdSlides>>
    /\ UNCHANGED notRendererVars

\* bounds: the public calls in flight and the preloads in flight when a
\* public call is made
MaxRendererCalls == 2
MaxPreloads == 1

\* the options tried (initialSlide keeps its default)
RendererOptions ==
    [loop : BOOLEAN, enableAnimations : BOOLEAN, enableTransitions : BOOLEAN,
     lazyLoad : {0, 1}, initialSlide : {0}]

\* the presentations tried: no slide, one slide with two steps, two and three
\* slides of which some have steps
Decks ==
    {<<>>,
     <<StepSlide(<<1, 2>>)>>,
     <<NoTimingSlide, StepSlide(<<11, 12>>)>>,
     <<StepSlide(<<1>>), StepSlide(<<11, 12>>), NoTimingSlide>>}

InitRenderer ==
    /\ rdOptions \in RendererOptions
    /\ rdSlides \in Decks
    /\ rdInited = FALSE
    /\ rdState = NewRendererState
    /\ rdLoaded = {}
    /\ rdController = Null
    /\ rdDom = NewSlideRenderer
    /\ rdCalls = <<>>
    /\ rdDone = Undefined
    /\ OthersIdle("renderer")

\* the positions in rdCalls of the public calls and of the preloads
PublicCalls == {c \in 1..Len(rdCalls) : rdCalls[c].op # "preloadSlide"}

PreloadCalls == {c \in 1..Len(rdCalls) : rdCalls[c].op = "preloadSlide"}

\* a further public call may be made
MayCall ==
    /\ Cardinality(PublicCalls) < MaxRendererCalls
    /\ Cardinality(PreloadCalls) <= MaxPreloads

\* a call whose awaited promise is settled already goes on before any timer,
\* animation or load ends
Settling == \E c \in 1..Len(rdCalls) : rdCalls[c].pc \in {"renderSlide", "next"}

\* renderer.init(presentation), made once
RendererInit ==
    /\ ~rdInited
    /\ MayCall
    /\ Becomes(init(World, RendererCall("init", rdState)))

\* renderer.goToSlide(index) with an index in, below or above the slides
GoToSlide ==
    /\ MayCall
    /\ \E index \in -1..Len(rdSlides) :
           Becomes(goToSlide(World, RendererCall("goToSlide", rdState), index))

RendererNext ==
    /\ MayCall
    /\ Becomes(next(World, RendererCall("next", rdState)))

RendererPrevious ==
    /\ MayCall
    /\ Becomes(previous(World, RendererCall("previous", rdState)))

\* the calls made one after the other: none but preloads is in flight
InitInTurn == PublicCalls = {} /\ RendererInit

GoToSlideInTurn == PublicCalls = {} /\ GoToSlide

NextInTurn == PublicCalls = {} /\ RendererNext

PreviousInTurn == PublicCalls = {} /\ RendererPrevious

\* createSlideElement of renderSlide has built the element
ResumeCreateSlideElement ==
    \E c \in 1..Len(rdCalls) :
        /\ rdCalls[c].pc = "createSlideElement"
        /\ ~Settling
        /\ Becomes(Show(Without(c),
                        [rdCalls[c] EXCEPT !.slideElement = NewSlideElement(World, rdCalls[c].index)],
                        TRUE))

\* the timer of playTransition has fired
ResumePlayTransition ==
    \E c \in 1..Len(rdCalls) :
        /\ rdCalls[c].pc = "playTransition"
        /\ ~Settling
        /\ Becomes(AfterRender(Shown(OldRemoved(Without(c)), rdCalls[c]), rdCalls[c]))

\* goToSlide goes on after a renderSlide that returned without awaiting
ResumeRenderSlide ==
    \E c \in 1..Len(rdCalls) :
        /\ rdCalls[c].pc = "renderSlide"
        /\ Becomes(AfterRender(Without(c), rdCalls[c]))

\* the animations of playStep have finished
ResumePlayStep ==
    \E c \in 1..Len(rdCalls) :
        /\ rdCalls[c].pc = "playStep"
        /\ ~Settling
        /\ Becomes(StepCounted([Without(c) EXCEPT !.controller = FinishStep(@)], rdCalls[c]))

\* next goes on after an animationController.next() that returned false
ResumeNext ==
    \E c \in 1..Len(rdCalls) :
        /\ rdCalls[c].pc = "next"
        /\ Becomes(StepCounted(Without(c), rdCalls[c]))

\* createSlideElement of preloadSlide has built the element
ResumePreloadSlide ==
    \E c \in 1..Len(rdCalls) :
        /\ rdCalls[c].pc = "preloadSlide"
        /\ ~Settling
        /\ Becomes(PreloadedSet(Without(c), rdCalls[c]))

\* init, goToSlide, next and previous, each awaited before the next call
NextRenderer ==
    \/ InitInTurn
    \/ GoToSlideInTurn
    \/ NextInTurn
    \/ PreviousInTurn
    \/ ResumeCreateSlideElement
    \/ ResumePlayTransition
    \/ ResumeRenderSlide
    \/ ResumePlayStep
    \/ ResumeNext
    \/ ResumePreloadSlide

SpecRenderer == InitRenderer /\ [][NextRenderer]_vars

(***************************************************************************)
(* Claims on the navigation, the calls made one after the other            *)
(***************************************************************************)
\* the flattened steps of the slide numbered index
StepsOfSlide(index) ==
    IF SlideAt(rdSlides, index) = Undefined THEN <<>> ELSE buildSteps(SlideAt(rdSlides, index))

\* the last call that returned was next(), made on a presentation with slides
\* after init
NextReturned ==
    /\ rdDone # Undefined
    /\ rdDone.op = "next"
    /\ rdInited
    /\ rdDone.at.totalSlides > 0

\* C21: renderer.next() first plays the current slide's remaining animation
\* steps, one step per call, and moves to the following slide only when none
\* remain; on the last slide it leaves the current slide unchanged unless the
\* loop option is set, in which case it goes to slide 0
C21_NextPlaysStepsThenMoves ==
    NextReturned =>
        IF rdController # Null /\ rdDone.at.animationStep < rdDone.at.totalAnimationSteps
        THEN /\ rdDone.at.animationStep < Len(StepsOfSlide(rdDone.at.currentSlide))
             /\ rdDone.played = StepsOfSlide(rdDone.at.currentSlide)[rdDone.at.animationStep + 1]
             /\ rdDone.after.currentSlide = rdDone.at.currentSlide
             /\ rdDone.after.animationStep = rdDone.at.animationStep + 1
        ELSE /\ rdDone.played = Undefined
             /\ rdDone.after.currentSlide =
                    IF rdDone.at.currentSlide < rdDone.at.totalSlides - 1
                    THEN rdDone.at.currentSlide + 1
                    ELSE IF rdOptions.loop THEN 0 ELSE rdDone.at.currentSlide

\* C24: whenever state.totalAnimationSteps > 0 and no navigation call is in
\* flight, the steps the AnimationController plays on the following next() are
\* the flattened steps of the slide at state.currentSlide, also after
\* previous() has rewound the animations of a slide other than the first
C24_ControllerHoldsCurrentSlideSteps ==
    (rdController # Null /\ rdState.totalAnimationSteps > 0 /\ PublicCalls = {}) =>
        rdController.steps = StepsOfSlide(rdState.currentSlide)

\* C25: after init and any sequence of awaited goToSlide(i) with arbitrary
\* integer i, next() and previous() calls, on a presentation with any number
\* of slides including zero, state.currentSlide is never negative and never
\* exceeds max(totalSlides - 1, 0)
C25_CurrentSlideInRange ==
    (rdInited /\ PublicCalls = {}) =>
        rdState.currentSlide \in 0..Max(rdState.totalSlides - 1, 0)

(***************************************************************************)
(* Claims on the navigation, calls made while earlier ones are in flight   *)
(***************************************************************************)
\* the renderer before init, with the preloading of slides switched off
InitNoPreload == InitRenderer /\ rdOptions.lazyLoad = 0

\* init has returned
InitReturned == rdInited /\ \A c \in 1..Len(rdCalls) : rdCalls[c].op # "init"

\* a call made after init has returned, whatever other calls are in flight
NextAfterInit == InitReturned /\ RendererNext

GoToSlideAfterInit == InitReturned /\ GoToSlide

\* init awaited, then next() calls that do not wait for one another
NextNextOverlap ==
    \/ InitInTurn
    \/ NextAfterInit
    \/ ResumeCreateSlideElement
    \/ ResumePlayTransition
    \/ ResumeRenderSlide
    \/ ResumePlayStep
    \/ ResumeNext

SpecNextOverlap == InitNoPreload /\ [][NextNextOverlap]_vars

\* C22: for any interleaving of PPTRenderer.next() calls, a next() issued
\* while an earlier next() is still awaiting its animation step included,
\* state.animationStep never exceeds state.totalAnimationSteps
C22_AnimationStepWithinTotal == rdState.animationStep <= rdState.totalAnimationSteps

\* init awaited, then goToSlide() calls that do not wait for one another
NextGoToSlideOverlap ==
    \/ InitInTurn
    \/ GoToSlideAfterInit
    \/ ResumeCreateSlideElement
    \/ ResumePlayTransition
    \/ ResumeRenderSlide

SpecGoToSlideOverlap == InitNoPreload /\ [][NextGoToSlideOverlap]_vars

\* the slides whose elements are in the slide container
Displayed == {element.slide : element \in rdDom.container}

\* C23: if goToSlide(a) and then goToSlide(b) are started without waiting for
\* the first to finish, then once both have completed the slide element
\* displayed in the container is the slide at state.currentSlide
C23_DisplayedIsCurrentSlide ==
    (rdInited /\ rdState.totalSlides > 0 /\ PublicCalls = {}) =>
        Displayed = {rdState.currentSlide}

(***************************************************************************)
(* usePPT: loading presentations into renderers                            *)
(*                                                                         *)
(* The composable holds the variable renderer (null, or the position in    *)
(* upCreated of the PPTRenderer it refers to) and the refs isLoading,      *)
(* error and presentation.  Of a PPTRenderer only whether destroy() has    *)
(* been called on it is kept.  A load() call in flight is suspended at     *)
(* the parse of the source or at renderer.init.                            *)
(***************************************************************************)
\* the refs of the composable when it is set up, and whether getContainer()
\* gives an element
NewRefs == [isLoading |-> FALSE, error |-> Null, presentation |-> Null, container |-> TRUE]

\* bounds: the PPTRenderers created and the load() calls in flight
MaxRenderers == 3
MaxLoadCalls == 2

\* what the parse of a source gives: it throws, it returns without a
\* presentation, or it returns a presentation
ParseOutcomes == {"throws", "null", "presentation"}

\* getContainer() is an element, or null for a composable without container
InitUsePPT ==
    /\ upRenderer = Null
    /\ upCreated = <<>>
    /\ upCalls = <<>>
    /\ upRefs \in {[NewRefs EXCEPT !.container = has] : has \in BOOLEAN}
    /\ OthersIdle("usePPT")

\* load(source) up to the await of the parse
Load ==
    /\ Len(upCalls) < MaxLoadCalls
    /\ Len(upCreated) + Len(upCalls) < MaxRenderers
    /\ upRefs' = [upRefs EXCEPT !.isLoading = TRUE, !.error = Null]
    /\ upCalls' = Append(upCalls, "parse")
    /\ UNCHANGED <<upRenderer, upCreated>>
    /\ UNCHANGED notUsePPTVars

\* the frames in flight without the one at position c
OtherLoads(c) == SubSeq(upCalls, 1, c - 1) \o SubSeq(upCalls, c + 1, Len(upCalls))

\* load after the await of the parse: the PPTRenderers created
RendererAfterParse(outcome) ==
    IF outcome = "presentation" /\ upRefs.container
    THEN Append(upCreated, [destroyed |-> FALSE])
    ELSE upCreated

\* load after the await of the parse, to the await of renderer.init or to
\* the end of its finally block
ResumeLoadParse ==
    \E c \in 1..Len(upCalls), outcome \in ParseOutcomes :
        /\ upCalls[c] = "parse"
        /\ upCreated' = RendererAfterParse(outcome)
        /\ upRenderer' = IF Len(upCreated') > Len(upCreated) THEN Num(Len(upCreated'))
                         ELSE upRenderer
        /\ upCalls' = IF Len(upCreated') > Len(upCreated) THEN Append(OtherLoads(c), "init")
                      ELSE OtherLoads(c)
        /\ upRefs' =
               IF outcome = "throws" THEN [upRefs EXCEPT !.error = Text(<<"Error">>), !.isLoading = FALSE]
               ELSE IF Len(upCreated') > Len(upCreated)
               THEN [upRefs EXCEPT !.presentation = Text(<<"presentation">>)]
               ELSE [upRefs EXCEPT !.presentation = IF outcome = "null" THEN Null
                                                    ELSE Text(<<"presentation">>),
                                   !.isLoading = FALSE]
        /\ UNCHANGED notUsePPTVars

\* load after the await of renderer.init
ResumeLoadInit ==
    \E c \in 1..Len(upCalls) :
        /\ upCalls[c] = "init"
        /\ upCalls' = OtherLoads(c)
        /\ upRefs' = [upRefs EXCEPT !.isLoading = FALSE]
        /\ UNCHANGED <<upRenderer, upCreated>>
        /\ UNCHANGED notUsePPTVars

\* destroy(), also run on unmount
UsePPTDestroy ==
    /\ upCreated' = IF upRenderer = Null THEN upCreated
                    ELSE [upCreated EXCEPT ![upRenderer.n] = [destroyed |-> TRUE]]
    /\ upRenderer' = Null
    /\ upRefs' = [upRefs EXCEPT !.presentation = Null]
    /\ UNCHANGED upCalls
    /\ UNCHANGED notUsePPTVars

NextUsePPT ==
    \/ Load
    \/ ResumeLoadParse
    \/ ResumeLoadInit
    \/ UsePPTDestroy

SpecUsePPT == InitUsePPT /\ [][NextUsePPT]_vars

\* the PPTRenderers created on which destroy() has not been called
Undestroyed == {k \in 1..Len(upCreated) : ~upCreated[k].destroyed}

\* C27: after any sequence of usePPT load() calls, at most one PPTRenderer
\* created by the composable remains undestroyed: a renderer replaced by a
\* later load has been destroyed
C27_AtMostOneRendererAlive == Cardinality(Undestroyed) <= 1

(***************************************************************************)
(* TimingController: playback of the timeline                              *)
(*                                                                         *)
(* The controller is the record tc of its fields timeline, currentTime,    *)
(* isRunning, rafId, startTimestamp and speed, with frame (the animation   *)
(* frame requested last has not fired and was not cancelled) and emitted   *)
(* (for each item, the types of the events emitted for it since the last   *)
(* stop()).  rafId is null or the handle of the request made last.  The    *)
(* times are whole milliseconds; those tried are even, so that the halves  *)
(* setSpeed(2) and start() take of them are whole too.                     *)
(***************************************************************************)
\* this.emit({ type, item, time }) for the item at position k
Emit(tc, k, type) == [tc EXCEPT !.emitted[k] = @ \cup {type}]

\* performance.now() - this.currentTime / this.speed
Restamped(tc, now) == [tc EXCEPT !.startTimestamp = now - (tc.currentTime \div tc.speed)]

\* TimingController.pause
pause(tc) == [tc EXCEPT !.isRunning = FALSE, !.rafId = Null, !.frame = FALSE]

\* TimingController.stop
stop(tc) ==
    [pause(tc) EXCEPT !.currentTime = 0,
                      !.timeline = [k \in DOMAIN tc.timeline |->
                                        [tc.timeline[k] EXCEPT !.state = "pending"]],
                      !.emitted = [k \in DOMAIN tc.timeline |-> {}]]

\* TimingController.seek: the state an item is given
StateAt(item, time) ==
    IF time < item.startTime THEN "pending"
    ELSE IF time >= item.startTime + item.duration THEN "completed"
    ELSE "running"

\* TimingController.seek
seek(tc, time, now) ==
    [Restamped([tc EXCEPT !.currentTime = time], now) EXCEPT
        !.timeline = [k \in DOMAIN tc.timeline |->
                          [tc.timeline[k] EXCEPT !.state = StateAt(tc.timeline[k], time)]]]

\* TimingController.setSpeed
setSpeed(tc, speed, now) ==
    IF tc.isRunning THEN Restamped([tc EXCEPT !.speed = speed], now)
    ELSE [tc EXCEPT !.speed = speed]

\* tick: what is done for the item at position k
TickItem(tc, k) ==
    IF tc.timeline[k].state = "pending" /\ tc.currentTime >= tc.timeline[k].startTime
    THEN Emit([tc EXCEPT !.timeline[k].state = "running"], k, "start")
    ELSE IF tc.timeline[k].state = "running"
    THEN IF tc.currentTime >= tc.timeline[k].startTime + tc.timeline[k].duration
         THEN Emit(Emit([tc EXCEPT !.timeline[k].state = "completed"], k, "update"), k, "complete")
         ELSE Emit(tc, k, "update")
    ELSE tc

RECURSIVE TickItemsFrom(_, _)
\* tick: the loop over the timeline from position k
TickItemsFrom(tc, k) ==
    IF k > Len(tc.timeline) THEN tc ELSE TickItemsFrom(TickItem(tc, k), k + 1)

\* this.timeline.every(item => item.state === 'completed')
AllCompleted(tc) == \A k \in DOMAIN tc.timeline : tc.timeline[k].state = "completed"

\* a tick that requests no further frame
RescheduledNever(tc) == IF AllCompleted(tc) THEN [tc EXCEPT !.isRunning = FALSE] ELSE tc

\* tick: stop when all have completed, else request the next frame
Rescheduled(tc) ==
    IF AllCompleted(tc) THEN [tc EXCEPT !.isRunning = FALSE]
    ELSE [tc EXCEPT !.rafId = Num(1), !.frame = TRUE]

\* TimingController.tick
tick(tc, now) ==
    IF ~tc.isRunning THEN tc
    ELSE Rescheduled(TickItemsFrom(
             [tc EXCEPT !.currentTime = (now - tc.startTimestamp) * tc.speed], 1))

\* TimingController.start
start(tc, now) ==
    IF tc.isRunning THEN tc
    ELSE tick(Restamped([tc EXCEPT !.isRunning = TRUE], now), now)

\* bounds: the items of a timeline and the clock
MaxPlaybackItems == 2
MaxNow == 12

\* the start times and durations of the items tried
PlaybackTimes == {0, 2}

\* the node of every item tried
PlaybackNode == Node("effect", Undefined, NoTiming, NoTarget)

RECURSIVE TimelineOf(_, _)
\* the timeline addToTimeline builds for the <<startTime, duration>> given
TimelineOf(pairs, k) ==
    IF k = 0 THEN <<>>
    ELSE addToTimeline(TimelineOf(pairs, k - 1), PlaybackNode, pairs[k][1], pairs[k][2])

\* the timelines tried, sorted by start time as buildTimeline leaves them
PlaybackTimelines ==
    {SortByStart(TimelineOf(pairs, Len(pairs))) :
         pairs \in SeqsUpTo(PlaybackTimes \X PlaybackTimes, MaxPlaybackItems)}

\* the speeds given to setSpeed and the times given to seek
PlaybackSpeeds == {1, 2}

SeekTimes == {0, 2, 4}

\* the controller of the current state
Playback ==
    [timeline |-> tpTimeline, currentTime |-> tpCurrentTime, isRunning |-> tpIsRunning,
     rafId |-> tpRafId, frame |-> tpFrame, startTimestamp |-> tpStartTimestamp,
     speed |-> tpSpeed, emitted |-> tpEmitted]

\* the controller becomes tc
PlaybackBecomes(tc) ==
    /\ tpTimeline' = tc.timeline
    /\ tpCurrentTime' = tc.currentTime
    /\ tpIsRunning' = tc.isRunning
    /\ tpRafId' = tc.rafId
    /\ tpFrame' = tc.frame
    /\ tpStartTimestamp' = tc.startTimestamp
    /\ tpSpeed' = tc.speed
    /\ tpEmitted' = tc.emitted
    /\ UNCHANGED notPlaybackVars

\* a controller whose timeline has been built, at time 0
InitPlayback ==
    /\ tpTimeline \in PlaybackTimelines
    /\ tpCurrentTime = 0
    /\ tpIsRunning = FALSE
    /\ tpRafId = Null
    /\ tpFrame = FALSE
    /\ tpStartTimestamp = 0
    /\ tpSpeed = 1
    /\ tpNow = 0
    /\ tpEmitted = [k \in DOMAIN tpTimeline |-> {}]
    /\ OthersIdle("playback")

\* the calls are made at the time the clock shows
PlaybackStart ==
    /\ PlaybackBecomes(start(Playback, tpNow))
    /\ UNCHANGED tpNow

PlaybackPause ==
    /\ PlaybackBecomes(pause(Playback))
    /\ UNCHANGED tpNow

PlaybackStop ==
    /\ PlaybackBecomes(stop(Playback))
    /\ UNCHANGED tpNow

PlaybackSeek ==
    /\ \E time \in SeekTimes : PlaybackBecomes(seek(Playback, time, tpNow))
    /\ UNCHANGED tpNow

PlaybackSetSpeed ==
    /\ \E speed \in PlaybackSpeeds : PlaybackBecomes(setSpeed(Playback, speed, tpNow))
    /\ UNCHANGED tpNow

\* the animation frame requested fires, 2 or 4 ms after the last event
PlaybackFrame ==
    /\ tpFrame
    /\ \E dt \in {2, 4} :
           /\ tpNow + dt <= MaxNow
           /\ PlaybackBecomes(tick([Playback EXCEPT !.frame = FALSE], tpNow + dt))
           /\ tpNow' = tpNow + dt

\* time passes while no frame is requested
PlaybackWait ==
    /\ ~tpFrame
    /\ tpNow + 2 <= MaxNow
    /\ tpNow' = tpNow + 2
    /\ UNCHANGED <<tpTimeline, tpCurrentTime, tpIsRunning, tpRafId, tpFrame, tpStartTimestamp,
                   tpSpeed, tpEmitted>>
    /\ UNCHANGED notPlaybackVars

NextPlayback ==
    \/ PlaybackStart
    \/ PlaybackPause
    \/ PlaybackStop
    \/ PlaybackSeek
    \/ PlaybackSetSpeed
    \/ PlaybackFrame
    \/ PlaybackWait

SpecPlayback == InitPlayback /\ [][NextPlayback]_vars

\* C28: for every timeline item, under any sequence of start, pause, seek and
\* setSpeed calls and frame ticks, a 'complete' event for the item is emitted
\* only after a 'start' event for that same item has been emitted since the
\* last stop()
C28_CompleteOnlyAfterStart ==
    \A k \in DOMAIN tpEmitted : "complete" \in tpEmitted[k] => "start" \in tpEmitted[k]

\* start() and setSpeed() calls and frames, without pause, stop and seek
NextPlaybackToEnd ==
    \/ PlaybackStart
    \/ PlaybackSetSpeed
    \/ PlaybackFrame

\* a frame requested fires in the end
SpecPlaybackToEnd == InitPlayback /\ [][NextPlaybackToEnd]_vars /\ WF_vars(PlaybackFrame)

\* every item is completed and the controller is not playing
PlayedToEnd == AllCompleted(Playback) /\ ~tpIsRunning

\* C29: after start() on a timeline whose items all have finite duration, if
\* pause, stop and seek are not called and animation frames keep firing with
\* advancing time, every item eventually reaches 'completed' and isPlaying()
\* eventually becomes false and stays false
C29_PlaysToEnd == tpIsRunning ~> [](PlayedToEnd)

\* a timeline of two items has been played to its end, each item with its
\* start, update and complete events
C29_Witness ==
    /\ PlayedToEnd
    /\ Len(tpTimeline) >= 2
    /\ tpNow > 0
    /\ \A k \in DOMAIN tpEmitted : tpEmitted[k] = {"start", "update", "complete"}

(***************************************************************************)
(* useAnimation: next() and reset() on one composable.  A next() call that *)
(* has called options.onAnimate stays in uaCalls, with the step it gave,   *)
(* until the promise the callback returned settles.                        *)
(***************************************************************************)
\* bounds: the totalSteps option and the onAnimate callbacks in flight
MaxTotalSteps == 3
MaxInFlight == 3

\* computed(() => options.totalSteps || 0)
totalSteps(options) == IF options.totalSteps = Undefined THEN 0 ELSE options.totalSteps.n

\* the options tried: totalSteps absent or a number, onAnimate given or not
UseAnimationOptions ==
    [totalSteps : {Undefined} \cup {Num(n) : n \in 0..MaxTotalSteps}, onAnimate : BOOLEAN]

InitUseAnimation ==
    /\ uaOptions \in UseAnimationOptions
    /\ uaCurrentStep = 0
    /\ uaIsAnimating = FALSE
    /\ uaCalls = <<>>
    /\ OthersIdle("useAnimation")

\* next(): refused at the end of the steps or while isAnimating; without an
\* onAnimate callback the call runs to its end at once; with one it calls
\* the callback with the current step and waits for it
UseAnimationNext ==
    /\ Len(uaCalls) < MaxInFlight
    /\ IF uaCurrentStep >= totalSteps(uaOptions) \/ uaIsAnimating
       THEN UNCHANGED <<uaCurrentStep, uaIsAnimating, uaCalls>>
       ELSE IF uaOptions.onAnimate
       THEN /\ uaIsAnimating' = TRUE
            /\ uaCalls' = Append(uaCalls, [step |-> uaCurrentStep])
            /\ UNCHANGED uaCurrentStep
       ELSE /\ uaCurrentStep' = uaCurrentStep + 1
            /\ uaIsAnimating' = FALSE
            /\ UNCHANGED uaCalls
    /\ UNCHANGED uaOptions
    /\ UNCHANGED notUseAnimationVars

\* the promise of an onAnimate callback settles and its next() goes on: the
\* step is counted when the promise was fulfilled, and isAnimating is
\* cleared either way
UseAnimationSettled ==
    /\ \E c \in DOMAIN uaCalls, fulfilled \in BOOLEAN :
           /\ uaCurrentStep' = IF fulfilled THEN uaCurrentStep + 1 ELSE uaCurrentStep
           /\ uaCalls' = [k \in 1..(Len(uaCalls) - 1) |->
                              IF k < c THEN uaCalls[k] ELSE uaCalls[k + 1]]
    /\ uaIsAnimating' = FALSE
    /\ UNCHANGED uaOptions
    /\ UNCHANGED notUseAnimationVars

\* reset()
UseAnimationReset ==
    /\ uaCurrentStep' = 0
    /\ uaIsAnimating' = FALSE
    /\ UNCHANGED <<uaOptions, uaCalls>>
    /\ UNCHANGED notUseAnimationVars

NextUseAnimation ==
    \/ UseAnimationNext
    \/ UseAnimationSettled
    \/ UseAnimationReset

SpecUseAnimation == InitUseAnimation /\ [][NextUseAnimation]_vars

\* C30: in useAnimation, for any interleaving of next() and reset() calls, at
\* most one onAnimate callback is in flight at any time
C30_OneOnAnimateInFlight == Len(uaCalls) <= 1

====
